---- MODULE Spec2Model ----
(***************************************************************************)
(* Vault secret checker: the Next.js proxy handlers (login, token lookup,  *)
(* token revoke, capabilities check, unwrap, secret retrieval, config),    *)
(* the detached e-mail notifier trigger and the browser form that drives   *)
(* them.                                                                   *)
(*                                                                         *)
(* JavaScript strings are sequences of one-character strings, so that      *)
(* startsWith, endsWith, slice, substring and template concatenation are   *)
(* computed rather than assumed.  A request field that is undefined and a  *)
(* field that is '' are both the empty sequence: every guard of the code   *)
(* tests such fields with `!field`, which does not tell them apart.        *)
(* An optional JSON member is a sequence of length 0 (undefined, dropped   *)
(* by JSON serialisation) or 1 (the value).                                *)
(*                                                                         *)
(* The repository holds several generations of some handlers and of the    *)
(* page; each generation is modelled under its own handler name.           *)
(***************************************************************************)
EXTENDS Integers, Sequences, FiniteSets

VARIABLES
  pc,               \* position of the request being served: idle, k8s, vault, done
  handler,          \* which route serves the request
  body,             \* the parsed JSON body of the request
  outbound,         \* outbound calls made for this request, in order
  resp,             \* the HTTP response returned, <<>> while there is none
  notified,         \* sendUnwrapNotification calls made for this request, in order
  notifierPending,  \* detached notifier promises that have not settled yet
  k8sAnswer,        \* what the Kubernetes API answered to this request, <<>> if not asked
  vaultAnswer,      \* what Vault answered to this request, <<>> if not asked
  ui,               \* which generation of the page is mounted
  credentials,      \* page state: the credentials form
  unwrapCredentials,\* page state: the unwrap form
  endpoint,         \* page state: the selected endpoint
  token,            \* page state: the in-memory Vault token
  loading,          \* page state: the loading flags
  stored,           \* page state: the useLocalStorage hook values, by key
  localStorage,     \* window.localStorage: the keys written and their values
  inflight,         \* the page's HTTP calls that have not settled, by operation
  toast,            \* the text of the last toast shown
  edits,            \* field edits made since the page was mounted
  env,              \* process.env: the environment the server was started with
  runs,             \* the sendUnwrapNotification calls that have not settled, in order
  notificationEmail,\* the unwrap handler's local notificationEmail
  other,            \* a second invocation, suspended at an await while this one runs
  logoutResult,     \* page: HTTP status of the response that has just settled
                    \* the logout, -1 at any other time
  loginResult,      \* page: whether the response that has just settled the
                    \* login was a success and the client token it carried,
                    \* <<>> at any other time
  cli               \* a run of vault-cli.sh: its shell variables, the requests
                    \* it has handed to curl and what curl returned, in order

serverVars == <<pc, handler, body, outbound, resp, notified, notifierPending,
               k8sAnswer, vaultAnswer, env, runs, notificationEmail, other>>
uiVars == <<ui, credentials, unwrapCredentials, endpoint, token, loading,
            stored, localStorage, inflight, toast, edits, logoutResult,
          loginResult>>
vars == <<pc, handler, body, outbound, resp, notified, notifierPending,
          k8sAnswer, vaultAnswer, env, runs, notificationEmail, other,
          ui, credentials, unwrapCredentials, endpoint, token, loading,
          stored, localStorage, inflight, toast, edits, logoutResult,
          loginResult, cli>>

----------------------------------------------------------------------------
(* Bounds of the model.                                                    *)

MaxLen == 2          \* longest secretPath enumerated
MaxCaps == 2         \* longest capability list Vault returns
MaxStored == 2       \* longest base64 text stored under a Kubernetes secret key
MaxPending == 1      \* detached notifier promises outstanding at once
MaxEdits == 2        \* field edits made on the page after it is mounted
MaxInflight == 2     \* requests of the page in flight at once

----------------------------------------------------------------------------
(* Strings.                                                                *)

Chars == {"/", "a"}

Str(n) == UNION {[1..k -> Chars] : k \in 0..n}

\* `!x` for a string-or-undefined request field
Falsy(x) == x = <<>>

\* String.prototype.startsWith / endsWith with a one-character argument
startsWith(s, c) == Len(s) > 0 /\ s[1] = c
endsWith(s, c) == Len(s) > 0 /\ s[Len(s)] = c

\* s.substring(1)
substring1(s) == SubSeq(s, 2, Len(s))

\* s.slice(0, -1)
sliceDropLast(s) == SubSeq(s, 1, Len(s) - 1)

\* s.includes(t) for strings as sequences
includesStr(s, t) ==
  \E i \in 1..(Len(s) - Len(t) + 1) : SubSeq(s, i, i + Len(t) - 1) = t

\* Array.prototype.includes
includes(arr, x) == \E i \in 1..Len(arr) : arr[i] = x

\* optional JSON members
Undefined == <<>>
Def(v) == <<v>>
\* obj.f : the member f of obj, undefined when obj has none
Get(obj, f) == IF f \in DOMAIN obj THEN Def(obj[f]) ELSE Undefined
\* obj.f?.g
Get2(obj, f, g) ==
  IF f \in DOMAIN obj /\ g \in DOMAIN obj[f] THEN Def(obj[f][g]) ELSE Undefined

\* the literals of the source, as character sequences
SecretDataPrefix == <<"s","e","c","r","e","t","/","d","a","t","a","/">>
V1SecretDataPrefix == <<"/","v","1","/">> \o SecretDataPrefix
CapabilitiesSelfPath ==
  <<"/","v","1","/","s","y","s","/","c","a","p","a","b","i","l","i","t","i","e","s","-","s","e","l","f">>
AppRoleLoginPath ==
  <<"/","v","1","/","a","u","t","h","/","a","p","p","r","o","l","e","/","l","o","g","i","n">>
UserpassLoginPath ==
  <<"/","v","1","/","a","u","t","h","/","u","s","e","r","p","a","s","s","/","l","o","g","i","n","/">>
LookupSelfPath ==
  <<"/","v","1","/","a","u","t","h","/","t","o","k","e","n","/","l","o","o","k","u","p","-","s","e","l","f">>
RevokeSelfPath ==
  <<"/","v","1","/","a","u","t","h","/","t","o","k","e","n","/","r","e","v","o","k","e","-","s","e","l","f">>
UnwrapPath ==
  <<"/","v","1","/","s","y","s","/","w","r","a","p","p","i","n","g","/","u","n","w","r","a","p">>

----------------------------------------------------------------------------
(* URL and path building.                                                  *)

\* vaultUrl taking the endpoint as it is given
vaultUrlAsGiven(e) == e

\* const vaultUrl = endpoint.endsWith('/') ? endpoint.slice(0, -1) : endpoint
vaultUrl(e) == IF endsWith(e, "/") THEN sliceDropLast(e) ELSE e

\* validate-access: the path handed to Vault's capabilities-self API
pathForCheck(secretPath) ==
  IF startsWith(secretPath, "/")
    THEN substring1(secretPath)
    ELSE SecretDataPrefix \o secretPath

\* sys/capabilities-self: "use secretPath directly"
pathForCheckDirect(secretPath) ==
  IF startsWith(secretPath, "/") THEN substring1(secretPath) ELSE secretPath

\* secretUrl without the trailing-slash handling of the endpoint
secretUrlAsGiven(e, secretPath) ==
  IF startsWith(secretPath, "/")
    THEN e \o secretPath
    ELSE e \o V1SecretDataPrefix \o secretPath

\* secret retrieval: the URL that is fetched
secretUrl(e, secretPath) ==
  IF startsWith(secretPath, "/")
    THEN vaultUrl(e) \o secretPath
    ELSE vaultUrl(e) \o V1SecretDataPrefix \o secretPath

\* PermissionValidation: the text rendered under "Final URL Preview:",
\* undefined when the block is not rendered
FinalUrlPreview(e, secretPath) ==
  IF secretPath # <<>> /\ e # <<>>
    THEN Def(vaultUrl(e) \o
             (IF startsWith(secretPath, "/")
                THEN secretPath
                ELSE V1SecretDataPrefix \o secretPath))
    ELSE Undefined

----------------------------------------------------------------------------
(* The environment and the texts read from it.  An unset variable and an   *)
(* empty one are both the empty sequence: the code tests them with `!v`.   *)
(* SMTP_HOST, compared as a whole only, and the hardcoded defaults are     *)
(* kept as one element.                                                    *)

\* s.split(c) for the separators seps, every field kept
RECURSIVE split(_, _)
split(s, seps) ==
  IF \A i \in 1..Len(s) : s[i] \notin seps THEN <<s>>
  ELSE LET i == CHOOSE n \in 1..Len(s) :
                  s[n] \in seps /\ \A m \in 1..(n - 1) : s[m] \notin seps
       IN <<SubSeq(s, 1, i - 1)>> \o split(SubSeq(s, i + 1, Len(s)), seps)

\* s.trim()
trim(s) ==
  LET inked == {i \in 1..Len(s) : s[i] # " "} IN
  IF inked = {} THEN <<>>
  ELSE SubSeq(s, CHOOSE i \in inked : \A j \in inked : i <= j,
                 CHOOSE i \in inked : \A j \in inked : i >= j)

\* /^[^\s@]+@[^\s@]+\.[^\s@]+$/.test(email)
isValidEmail(email) ==
  \E i \in 1..Len(email), j \in 1..Len(email) :
    /\ email[i] = "@" /\ email[j] = "."
    /\ 1 < i /\ i + 1 < j /\ j < Len(email)
    /\ \A k \in 1..Len(email) : k # i => email[k] \notin {"@", " "}

\* the fields of a /[,\s]+/ split that pass the filter; the empty fields a
\* run of separators leaves are not valid addresses either
parseEmailAddresses(emailString) ==
  IF emailString = <<>> THEN <<>>
  ELSE SelectSeq(split(emailString, {",", " "}), isValidEmail)

\* isSmtpConfigured testing only that a host is set
isSmtpConfiguredAnyHost(e) == e.SMTP_HOST # <<>>

isSmtpConfigured(e) ==
  /\ e.SMTP_HOST # <<>>
  /\ e.SMTP_HOST # <<"smtp.example.com">>
  /\ e.SMTP_HOST # <<"xxx.example.com">>

\* split(','), trim, filter: the entries of a comma-separated variable
Entries(list) ==
  LET trimmed == split(list, {","}) IN
  SelectSeq([i \in 1..Len(trimmed) |-> trim(trimmed[i])], LAMBDA x : x # <<>>)

getVaultEndpoints(e) ==
  LET endpoints == SelectSeq(Entries(e.VAULT_ENDPOINTS),
                             LAMBDA x : Len(x) >= 4
                                        /\ SubSeq(x, 1, 4) = <<"h", "t", "t", "p">>)
  IN IF e.VAULT_ENDPOINTS = <<>> \/ Len(endpoints) = 0
       THEN <<<<"http://localhost:8200">>>> ELSE endpoints

\* getK8sNamespaces returning the entries found, without the default
getK8sNamespacesNoDefault(e) ==
  Entries(IF e.K8S_NAMESPACE_LIST # <<>>
            THEN e.K8S_NAMESPACE_LIST
            ELSE e.NEXT_PUBLIC_K8S_NAMESPACE_LIST)

getK8sNamespaces(e) ==
  LET namespaceList == IF e.K8S_NAMESPACE_LIST # <<>>
                         THEN e.K8S_NAMESPACE_LIST
                         ELSE e.NEXT_PUBLIC_K8S_NAMESPACE_LIST
  IN IF namespaceList = <<>> \/ Len(Entries(namespaceList)) = 0
       THEN <<<<"default">>>> ELSE Entries(namespaceList)

getAppTitle(e) ==
  IF e.NEXT_PUBLIC_APP_TITLE # <<>> /\ trim(e.NEXT_PUBLIC_APP_TITLE) # <<>>
    THEN trim(e.NEXT_PUBLIC_APP_TITLE)
    ELSE <<"HashiCorp Vault Credential Validator">>

\* nothing set: the server started without configuration
NoEnv ==
  [SMTP_HOST |-> <<>>, VAULT_ENDPOINTS |-> <<>>, K8S_NAMESPACE_LIST |-> <<>>,
   NEXT_PUBLIC_K8S_NAMESPACE_LIST |-> <<>>, NEXT_PUBLIC_APP_TITLE |-> <<>>]

\* the environments enumerated: every SMTP host setting, and every setting
\* of the variables the config handler reads (unset, blank, separators
\* only, no valid entry, valid entries)
Environments ==
  {[NoEnv EXCEPT !.SMTP_HOST = h] :
     h \in {<<"smtp.example.com">>, <<"xxx.example.com">>, <<"mail">>}}
  \cup
  {[NoEnv EXCEPT !.VAULT_ENDPOINTS = v, !.K8S_NAMESPACE_LIST = n,
                 !.NEXT_PUBLIC_K8S_NAMESPACE_LIST = p,
                 !.NEXT_PUBLIC_APP_TITLE = t] :
     v \in {<<>>, <<" ">>, <<"x", ",">>, <<"h", "t", "t", "p">>,
            <<" ", "h", "t", "t", "p", "x", ",", "x", ",", "h", "t", "t", "p">>},
     n \in {<<>>, <<" ">>, <<",", " ">>, <<"x">>, <<"x", ",", " ", "x", "x">>},
     p \in {<<>>, <<"p">>},
     t \in {<<>>, <<" ">>, <<" ", "x", " ">>}}

----------------------------------------------------------------------------
(* Requests.  Request bodies are well-formed JSON objects.                 *)

\* endpoints as a request names them: absent, plain, with one and with two
\* trailing slashes, and the bare slash
Endpoints == {<<>>, <<"a">>, <<"a", "/">>, <<"a", "/", "/">>, <<"/">>}

Present == {<<>>, <<"a">>}
TokenValue == <<"t">>
Tokens == {<<>>, TokenValue}
AuthMethods == {<<>>, <<"approle">>, <<"userpass">>}
SecretKeyNames == {<<>>, <<"k">>, <<"j">>}

NoBody ==
  [endpoint |-> <<>>, token |-> <<>>, secretPath |-> <<>>, keyName |-> <<>>,
   accessId |-> <<>>, accessKey |-> <<>>, authMethod |-> <<>>,
   k8sNamespace |-> <<>>, k8sSecretName |-> <<>>, secretKey |-> <<>>,
   wrappedToken |-> <<>>, notificationEmail |-> <<>>]

LoginBodies ==
  {[NoBody EXCEPT !.endpoint = e, !.accessId = a, !.k8sNamespace = n,
                  !.k8sSecretName = s, !.secretKey = k] :
     e \in Endpoints, a \in Present, n \in Present, s \in Present,
     k \in SecretKeyNames}

LoginKeyBodies ==
  {[NoBody EXCEPT !.endpoint = e, !.accessId = a, !.accessKey = k,
                  !.authMethod = m] :
     e \in Endpoints, a \in Present, k \in Present, m \in AuthMethods}

TokenBodies ==
  {[NoBody EXCEPT !.endpoint = e, !.token = t] :
     e \in Endpoints, t \in Tokens}

PathBodies ==
  {[NoBody EXCEPT !.endpoint = e, !.token = t, !.secretPath = p] :
     e \in Endpoints, t \in Tokens, p \in Str(MaxLen)}

SecretBodies ==
  {[NoBody EXCEPT !.endpoint = e, !.token = t, !.secretPath = p,
                  !.keyName = k] :
     e \in Endpoints, t \in Tokens, p \in Str(MaxLen), k \in {<<>>, <<"k">>}}

\* a notificationEmail member that is not a string (a JSON number)
NonString == <<"number">>

\* notificationEmail: none, one address, two addresses, no valid address,
\* a valid address after an invalid one, not a string
EmailStrings ==
  {<<>>,
   <<"a", "@", "a", ".", "a">>,
   <<"a", "@", "a", ".", "a", ",", " ", "b", "@", "b", ".", "b">>,
   <<"m">>,
   <<"m", ",", "a", "@", "a", ".", "a">>,
   NonString}

UnwrapBodies ==
  {[NoBody EXCEPT !.endpoint = e, !.wrappedToken = w,
                  !.notificationEmail = m] :
     e \in Endpoints, w \in Present, m \in {<<>>, <<"m">>}}

\* unwrap requests to one endpoint, with every notificationEmail
MailBodies ==
  {[NoBody EXCEPT !.endpoint = <<"a">>, !.wrappedToken = w,
                  !.notificationEmail = m] :
     w \in Present, m \in EmailStrings}

----------------------------------------------------------------------------
(* What the upstream services answer.                                      *)

Caps == {"read", "list", "write", "delete", "update"}
CapLists == UNION {[1..k -> Caps] : k \in 0..MaxCaps}

\* a Vault HTTP error (axios rejects with error.response) or a failure
\* without a response (network error, timeout)
VaultFailures ==
  {[kind |-> "http", status |-> st, statusText |-> "status text",
    data |-> [errors |-> <<"vault error">>]] : st \in {400, 403, 404, 503}}
  \cup {[kind |-> "net", message |-> m] :
          m \in {<<"timeout", "of", "10000ms", "exceeded">>,
                <<"connect", "ECONNREFUSED">>}}

VaultOk(d) == [kind |-> "ok", data |-> d]

\* response.data of a successful Vault call, per Vault API
AuthData ==
  {<<>>,
   [auth |-> [renewable |-> FALSE]],
   [auth |-> [client_token |-> TokenValue, renewable |-> TRUE,
              lease_duration |-> 3600],
    request_id |-> "r"]}
LookupData ==
  {<<>>,
   [data |-> [id |-> TokenValue, ttl |-> 3600, renewable |-> TRUE,
              policies |-> <<"default">>]],
   [data |-> [id |-> TokenValue, accessor |-> "acc", creation_time |-> 1,
              expire_time |-> "exp", ttl |-> 3600, renewable |-> FALSE,
              policies |-> <<"default">>, entity_id |-> "ent",
              display_name |-> "approle", orphan |-> TRUE],
    request_id |-> "r"]}
CapabilitiesData ==
  {<<>>} \cup {[capabilities |-> c] : c \in CapLists}
\* revoke-self answers 204 No Content: axios yields ''
RevokeData == {<<>>}
UnwrapData == {[data |-> [value |-> "unwrapped"]],
               [auth |-> [client_token |-> TokenValue]]}
SecretData ==
  {<<>>,
   [data |-> [data |-> [k |-> "v"], metadata |-> [version |-> 1]]],
   [data |-> [data |-> [j |-> "w"]]]}

VaultOutcomes(h) ==
  VaultFailures \cup
  {VaultOk(d) : d \in
     CASE h \in {"login", "login0", "login_key"} -> AuthData
       [] h = "lookup" -> LookupData
       [] h = "revoke" -> RevokeData
       [] h \in {"validate_access", "capabilities_self"} -> CapabilitiesData
       [] h \in {"unwrap", "unwrap0"} -> UnwrapData
       [] OTHER -> SecretData}

\* base64 text stored under a key of the Kubernetes secret
B64Chars == {"Q", "E"}
StoredValues == UNION {[1..k -> B64Chars] : k \in 0..MaxStored}
K8sKeys == {<<"k">>}
K8sSecretMaps ==
  UNION {[ks -> StoredValues] : ks \in SUBSET K8sKeys}

K8sOutcomes ==
  {[kind |-> "ok", hasData |-> TRUE, data |-> m] : m \in K8sSecretMaps}
  \cup {[kind |-> "ok", hasData |-> FALSE, data |-> <<>>]}
  \cup {[kind |-> "api", statusCode |-> c, isError |-> e,
         message |-> <<"HTTP", "request", "failed">>] :
          c \in {401, 403, 404, 500}, e \in BOOLEAN}
  \cup {[kind |-> "err", isError |-> TRUE, message |-> m] :
          m \in {<<"connect", "ECONNREFUSED">>, <<"connect", "ETIMEDOUT">>,
                 <<"self", "signed", "certificate">>}}
  \cup {[kind |-> "err", isError |-> FALSE, message |-> <<>>]}

\* Buffer.from(text, 'base64'): six bits per character, whole bytes only
B64Val(c) == IF c = "Q" THEN 16 ELSE 4

RECURSIVE B64Decode(_)
B64Decode(s) ==
  IF Len(s) < 2 THEN <<>>
  ELSE IF Len(s) = 2 THEN
    <<B64Val(s[1]) * 4 + (B64Val(s[2]) \div 16)>>
  ELSE IF Len(s) = 3 THEN
    <<B64Val(s[1]) * 4 + (B64Val(s[2]) \div 16),
      (B64Val(s[2]) % 16) * 16 + (B64Val(s[3]) \div 4)>>
  ELSE
    <<B64Val(s[1]) * 4 + (B64Val(s[2]) \div 16),
      (B64Val(s[2]) % 16) * 16 + (B64Val(s[3]) \div 4),
      (B64Val(s[3]) % 4) * 64 + B64Val(s[4])>>
    \o B64Decode(SubSeq(s, 5, Len(s)))

\* secretData[secretKey]: the stored text, '' when there is none
StoredUnder(k, key) ==
  IF k.hasData /\ key \in DOMAIN k.data THEN k.data[key] ELSE <<>>

\* finalAccessKey = Buffer.from(secretData[secretKey], 'base64').toString('utf-8')
finalAccessKey(k, key) == B64Decode(StoredUnder(k, key))

----------------------------------------------------------------------------
(* Responses.                                                              *)

\* NextResponse.json(body, {status})
json(status, b) == [status |-> status, body |-> b]

\* 'Missing required fields: ...' with the field names the text lists
MissingFields(text, names) ==
  json(400, [success |-> FALSE, error |-> [text |-> text, names |-> names]])

\* VaultFailure answering 500 whatever Vault's status was
VaultFailureAlways500(prefix, v) ==
  IF v.kind = "http"
    THEN json(500,
              [success |-> FALSE,
               error |-> [text |-> prefix, status |-> v.status,
                          statusText |-> v.statusText],
               details |-> v.data])
    ELSE json(500,
              [success |-> FALSE,
               error |-> [text |-> "Network error", message |-> v.message]])

\* the catch block shared by every POST handler: a Vault HTTP error is passed
\* through with its status, anything else is a 500 network error
VaultFailure(prefix, v) ==
  IF v.kind = "http"
    THEN json(v.status,
              [success |-> FALSE,
               error |-> [text |-> prefix, status |-> v.status,
                          statusText |-> v.statusText],
               details |-> v.data])
    ELSE json(500,
              [success |-> FALSE,
               error |-> [text |-> "Network error", message |-> v.message]])

\* login: the reshaped Vault answer
LoginSuccess(d) ==
  json(200,
       [success |-> TRUE,
        data |-> [auth |-> Get(d, "auth"),
                  token |-> Get2(d, "auth", "client_token"),
                  renewable |-> Get2(d, "auth", "renewable"),
                  lease_duration |-> Get2(d, "auth", "lease_duration")]])

\* LookupSuccess answering Vault's data object without the envelope
LookupSuccessBare(d) == json(200, IF "data" \in DOMAIN d THEN d.data ELSE <<>>)

\* LookupSuccess forwarding every member of Vault's data object
LookupSuccessWhole(d) ==
  json(200,
       [success |-> TRUE,
        data |-> IF "data" \in DOMAIN d
                   THEN [f \in DOMAIN d.data |-> Def(d.data[f])]
                   ELSE <<>>])

\* lookup-self: the projection of Vault's data object
LookupSuccess(d) ==
  json(200,
       [success |-> TRUE,
        data |-> [id |-> Get2(d, "data", "id"),
                  accessor |-> Get2(d, "data", "accessor"),
                  creation_time |-> Get2(d, "data", "creation_time"),
                  expire_time |-> Get2(d, "data", "expire_time"),
                  ttl |-> Get2(d, "data", "ttl"),
                  renewable |-> Get2(d, "data", "renewable"),
                  policies |-> Get2(d, "data", "policies"),
                  entity_id |-> Get2(d, "data", "entity_id"),
                  display_name |-> Get2(d, "data", "display_name")]])

\* const capabilities = response.data.capabilities || []
capabilitiesOf(d) == IF "capabilities" \in DOMAIN d THEN d.capabilities ELSE <<>>

hasReadPermission(c) == includes(c, "read")
hasListPermission(c) == includes(c, "list")
\* hasWritePermission taking 'update' for a write capability as well
hasWritePermissionOrUpdate(c) == includes(c, "write") \/ includes(c, "update")
hasWritePermission(c) == includes(c, "write")
hasDeletePermission(c) == includes(c, "delete")
hasAccess(c) == hasReadPermission(c) \/ hasListPermission(c)

\* validate-access: the reshaped capabilities answer
ValidateAccessSuccess(b, d) ==
  LET capabilities == capabilitiesOf(d) IN
  json(200,
       [success |-> TRUE,
        data |-> [secretPath |-> b.secretPath,
                  resolvedPath |-> pathForCheck(b.secretPath),
                  capabilities |-> capabilities,
                  permissions |-> [read |-> hasReadPermission(capabilities),
                                   list |-> hasListPermission(capabilities),
                                   write |-> hasWritePermission(capabilities),
                                   delete |-> hasDeletePermission(capabilities)],
                  hasAccess |-> hasAccess(capabilities),
                  summary |-> IF Len(capabilities) > 0
                                THEN capabilities ELSE <<"no">>]])

\* NextResponse.json(response.data): Vault's body forwarded as it is
PassThrough(d) == json(200, d)

\* secret retrieval: one key or all keys of data.data
GetSecretSuccess(b, d) ==
  LET secretData == IF "data" \in DOMAIN d /\ "data" \in DOMAIN d.data
                      THEN d.data.data ELSE <<>>
      metadata == IF "data" \in DOMAIN d /\ "metadata" \in DOMAIN d.data
                    THEN d.data.metadata ELSE <<>>
  IN
  IF b.keyName # <<>>
    THEN json(200,
              [success |-> TRUE,
               data |-> [secretPath |-> b.secretPath,
                         keyName |-> b.keyName,
                         keyValue |-> Get(secretData, b.keyName[1]),
                         keyExists |-> b.keyName[1] \in DOMAIN secretData,
                         requestedSingleKey |-> TRUE,
                         metadata |-> [version |-> Get(metadata, "version")]]])
    ELSE json(200,
              [success |-> TRUE,
               data |-> [secretPath |-> b.secretPath,
                         allSecrets |-> secretData,
                         allKeys |-> DOMAIN secretData,
                         totalKeys |-> Cardinality(DOMAIN secretData),
                         requestedSingleKey |-> FALSE,
                         metadata |-> [version |-> Get(metadata, "version")]]])

\* config: title, endpoints, namespaces and the SMTP flag
ConfigSuccess(e) ==
  json(200, [success |-> TRUE,
             config |-> [title |-> getAppTitle(e),
                         endpoints |-> getVaultEndpoints(e),
                         namespaces |-> getK8sNamespaces(e),
                         email |-> [configured |-> isSmtpConfigured(e)]]])

\* the text each handler puts in front of a Vault HTTP error
FailurePrefix(h) ==
  CASE h \in {"login", "login0", "login_key"} -> "Vault login failed"
    [] h = "lookup" -> "Token lookup failed"
    [] h = "revoke" -> "Token revoke failed"
    [] h \in {"validate_access", "capabilities_self"} -> "Permission validation failed"
    [] h \in {"unwrap", "unwrap0"} -> "Token unwrap failed"
    [] OTHER -> "Secret retrieval failed"

\* what a handler returns once its Vault call has succeeded
VaultSuccess(h, b, d) ==
  CASE h \in {"login", "login0", "login_key"} -> LoginSuccess(d)
    [] h = "lookup" -> LookupSuccess(d)
    [] h = "validate_access" -> ValidateAccessSuccess(b, d)
    [] h \in {"revoke", "capabilities_self", "unwrap", "unwrap0"} -> PassThrough(d)
    [] OTHER -> GetSecretSuccess(b, d)

\* what a handler returns once its Vault call has settled
VaultReply(h, b, v) ==
  IF v.kind = "ok" THEN VaultSuccess(h, b, v.data)
                   ELSE VaultFailure(FailurePrefix(h), v)

\* the Kubernetes-backed login once its Vault call has settled.  The decoded
\* secret accessKey is in scope there; no response value is built from it.
LoginReply(ver, b, accessKey, v) == VaultReply(ver, b, v)

----------------------------------------------------------------------------
(* The Kubernetes phase of the login handler.                              *)

LoginVersions == {"login", "login0"}

\* const errorMessage = k8sError instanceof Error ? k8sError.message : '...'
k8sErrorMessage(k) ==
  IF k.isError THEN k.message ELSE <<"Unknown", "Kubernetes", "error">>

\* the catch (k8sError) block of the current handler
K8sFailure(b, k) ==
  IF k.kind = "api" /\ k.statusCode = 404 THEN
    json(404, [success |-> FALSE,
               error |-> [text |-> "Secret not found in namespace",
                          secret |-> b.k8sSecretName,
                          namespace |-> b.k8sNamespace]])
  ELSE IF k.kind = "api" /\ k.statusCode = 403 THEN
    json(403, [success |-> FALSE,
               error |-> [text |-> "Access denied: insufficient permissions to read secrets in namespace",
                          namespace |-> b.k8sNamespace]])
  ELSE IF k.kind = "api" /\ k.statusCode = 401 THEN
    json(401, [success |-> FALSE,
               error |-> [text |-> "Authentication failed: invalid Kubernetes credentials"]])
  ELSE IF includes(k8sErrorMessage(k), "ECONNREFUSED")
          \/ includes(k8sErrorMessage(k), "ETIMEDOUT") THEN
    json(503, [success |-> FALSE,
               error |-> [text |-> "Unable to connect to Kubernetes API. Check cluster configuration."]])
  ELSE
    json(500, [success |-> FALSE,
               error |-> [text |-> "Failed to access Kubernetes secret",
                          message |-> k8sErrorMessage(k)]])

\* the catch (k8sError) block of the first Kubernetes-backed handler
K8sFailure0(b, k) ==
  IF k.kind = "api" /\ k.statusCode = 404 THEN
    json(404, [success |-> FALSE,
               error |-> [text |-> "Secret not found in namespace",
                          secret |-> b.k8sSecretName,
                          namespace |-> b.k8sNamespace]])
  ELSE IF k.kind = "api" /\ k.statusCode = 403 THEN
    json(403, [success |-> FALSE,
               error |-> [text |-> "Insufficient permissions to read secrets. Check RBAC configuration."]])
  ELSE
    json(500, [success |-> FALSE,
               error |-> [text |-> "Kubernetes secret fetch error",
                          message |-> k8sErrorMessage(k)]])

\* 'Failed to initialize Kubernetes client. ...'
ClientInitFailed ==
  json(500, [success |-> FALSE,
             error |-> [text |-> "Failed to initialize Kubernetes client"]])

\* KeyMissing testing only that the secret has data
KeyMissingDataOnly(k, key) == ~k.hasData

\* if (!secretData || !secretData[secretKey])
KeyMissing(k, key) == ~k.hasData \/ StoredUnder(k, key) = <<>>

KeyNotFound(b) ==
  json(404, [success |-> FALSE,
             error |-> [text |-> "Secret key not found in secret in namespace",
                        key |-> b.secretKey,
                        secret |-> b.k8sSecretName,
                        namespace |-> b.k8sNamespace]])

\* if (!finalAccessKey)
EmptyAccessKey(ver, b) ==
  IF ver = "login"
    THEN json(400, [success |-> FALSE,
                    error |-> [text |-> "Secret key is empty or invalid in secret",
                               key |-> b.secretKey,
                               secret |-> b.k8sSecretName]])
    ELSE json(400, [success |-> FALSE,
                    error |-> [text |-> "Missing accessKey from Kubernetes secret"]])

\* the response the Kubernetes phase ends the request with, <<>> when the
\* handler goes on to Vault
K8sPhaseResponse(ver, b, k) ==
  IF k.kind # "ok" THEN
    (IF ver = "login" THEN K8sFailure(b, k) ELSE K8sFailure0(b, k))
  ELSE IF KeyMissing(k, b.secretKey) THEN KeyNotFound(b)
  ELSE IF finalAccessKey(k, b.secretKey) = <<>> THEN EmptyAccessKey(ver, b)
  ELSE <<>>

----------------------------------------------------------------------------
(* Outbound calls.                                                         *)

K8sCall(b) ==
  [to |-> "k8s", name |-> b.k8sSecretName, namespace |-> b.k8sNamespace]

VaultCall(method, url, tokenHeader, payload) ==
  [to |-> "vault", method |-> method, url |-> url, token |-> tokenHeader,
   payload |-> payload]

\* the Vault request of the handlers that go to Vault straight after
\* validating the body
FirstVaultCall(h, b) ==
  CASE h = "login_key" ->
         IF b.authMethod \in {<<>>, <<"approle">>}
           THEN VaultCall("POST", vaultUrl(b.endpoint) \o AppRoleLoginPath, <<>>,
                          [role_id |-> b.accessId, secret_id |-> b.accessKey])
           ELSE VaultCall("POST",
                          vaultUrl(b.endpoint) \o UserpassLoginPath \o b.accessId,
                          <<>>, [password |-> b.accessKey])
    [] h = "lookup" ->
         VaultCall("GET", vaultUrl(b.endpoint) \o LookupSelfPath, b.token, <<>>)
    [] h = "revoke" ->
         VaultCall("POST", vaultUrl(b.endpoint) \o RevokeSelfPath, b.token, <<>>)
    [] h = "validate_access" ->
         VaultCall("POST", vaultUrl(b.endpoint) \o CapabilitiesSelfPath, b.token,
                   [path |-> pathForCheck(b.secretPath)])
    [] h = "capabilities_self" ->
         VaultCall("POST", vaultUrl(b.endpoint) \o CapabilitiesSelfPath, b.token,
                   [path |-> pathForCheckDirect(b.secretPath)])
    [] h \in {"unwrap", "unwrap0"} ->
         VaultCall("POST", vaultUrl(b.endpoint) \o UnwrapPath, b.wrappedToken, <<>>)
    [] OTHER ->
         VaultCall("GET", secretUrl(b.endpoint, b.secretPath), b.token, <<>>)

\* LoginVaultCall sending the stored text as it is, without decoding it
LoginVaultCallUndecoded(b, k) ==
  VaultCall("POST", vaultUrl(b.endpoint) \o AppRoleLoginPath, <<>>,
            [role_id |-> b.accessId,
             secret_id |-> StoredUnder(k, b.secretKey)])

\* the login request that follows a successful Kubernetes phase
LoginVaultCall(b, k) ==
  VaultCall("POST", vaultUrl(b.endpoint) \o AppRoleLoginPath, <<>>,
            [role_id |-> b.accessId,
             secret_id |-> finalAccessKey(k, b.secretKey)])

\* Validation testing the endpoint only
ValidationEndpointOnly(h, b) ==
  IF Falsy(b.endpoint)
    THEN MissingFields("Missing required fields", {"endpoint"})
    ELSE <<>>

\* the required-field check of each handler: the 400 response, <<>> when
\* every required field is there
Validation(h, b) ==
  CASE h \in LoginVersions ->
         IF Falsy(b.endpoint) \/ Falsy(b.accessId)
           THEN MissingFields("Missing required fields", {"endpoint", "accessId"})
         ELSE IF Falsy(b.k8sNamespace) \/ Falsy(b.k8sSecretName) \/ Falsy(b.secretKey)
           THEN MissingFields("Missing Kubernetes secret reference fields",
                              {"namespace", "secretName", "secretKey"})
         ELSE <<>>
    [] h = "login_key" ->
         IF Falsy(b.endpoint) \/ Falsy(b.accessId) \/ Falsy(b.accessKey)
           THEN MissingFields("Missing required fields",
                              {"endpoint", "accessId", "accessKey"})
           ELSE <<>>
    [] h \in {"lookup", "revoke"} ->
         IF Falsy(b.endpoint) \/ Falsy(b.token)
           THEN MissingFields("Missing required fields", {"endpoint", "token"})
           ELSE <<>>
    [] h \in {"unwrap", "unwrap0"} ->
         IF Falsy(b.endpoint) \/ Falsy(b.wrappedToken)
           THEN MissingFields("Missing required fields", {"endpoint", "wrappedToken"})
           ELSE <<>>
    [] OTHER ->
         IF Falsy(b.endpoint) \/ Falsy(b.token) \/ Falsy(b.secretPath)
           THEN MissingFields("Missing required fields",
                              {"endpoint", "token", "secretPath"})
           ELSE <<>>

----------------------------------------------------------------------------
(* The unwrap handler's notifier calls.                                    *)

\* the sendUnwrapNotification calls the unwrap handler makes once its Vault
\* call has settled with v.  The current handler notifies on success, on a
\* Vault HTTP error and on a network error; the first one on success only.
Notifications(h, b, email, v) ==
  IF email = <<>> THEN <<>>
  ELSE IF v.kind = "ok" /\ h \in {"unwrap", "unwrap0"} THEN
    <<[email |-> email, success |-> TRUE,
       endpoint |-> vaultUrl(b.endpoint)]>>
  ELSE IF h = "unwrap" THEN
    <<[email |-> email, success |-> FALSE,
       endpoint |-> <<"request.url">>]>>
  ELSE <<>>

\* sendUnwrapNotification(emailString, data) up to its first await: the
\* call as the handler leaves it.  It resolves at once when SMTP is not
\* configured or no address is valid, rejects when emailString has no
\* split method, and otherwise waits for sendEmail to the first recipient.
sendUnwrapNotification(e, emailString, data) ==
  LET result == [emailString |-> emailString,
                 subject |-> IF data.success THEN "Success" ELSE "Failed",
                 emails |-> <<>>, attempts |-> <<>>,
                 success |-> 0, failed |-> 0, details |-> <<>>,
                 state |-> "resolved"]
  IN
  IF ~isSmtpConfigured(e)
    THEN [result EXCEPT !.details = <<"SMTP not configured">>]
  ELSE IF emailString = NonString
    THEN [result EXCEPT !.state = "rejected"]
  ELSE IF Len(parseEmailAddresses(emailString)) = 0
    THEN [result EXCEPT !.details = <<"No valid email addresses found">>]
  ELSE [result EXCEPT !.emails = parseEmailAddresses(emailString),
                      !.state = "sending"]

\* what sendEmail can come to for one recipient: true, false, or a throw
SendOutcomes == {"sent", "failed", "threw"}

\* UnwrapReply awaiting the notifier inside the try block: a rejection
\* lands in the catch block
UnwrapReplyAwaitingNotifier(h, b, v, started) ==
  IF \E i \in 1..Len(started) : started[i].state = "rejected"
    THEN json(500, [success |-> FALSE,
                    error |-> [text |-> "Network error",
                               message |-> <<"split", "is", "not", "a", "function">>]])
    ELSE VaultReply(h, b, v)

\* the unwrap handler's response once Vault has settled.  The notifier
\* calls it has started are detached (.catch logs); nothing of them is read.
UnwrapReply(h, b, v, started) == VaultReply(h, b, v)

----------------------------------------------------------------------------
(* The handlers.  A handler runs from the request to its first await in    *)
(* one step, and from each settled await to the next await or to its       *)
(* response in one step.                                                   *)

\* a new request reaches handler h with body b
Begin(h, b) ==
  /\ pc = "idle"
  /\ handler' = h
  /\ body' = b
  /\ k8sAnswer' = <<>>
  /\ vaultAnswer' = <<>>
  /\ notified' = <<>>
  /\ notificationEmail' = IF h \in {"unwrap", "unwrap0"}
                             THEN b.notificationEmail ELSE <<>>

\* a handler that validates the body and then calls Vault
DirectPOST(h, b) ==
  /\ Begin(h, b)
  /\ IF Validation(h, b) # <<>>
       THEN /\ resp' = Validation(h, b)
            /\ outbound' = <<>>
            /\ pc' = "done"
       ELSE /\ resp' = <<>>
            /\ outbound' = <<FirstVaultCall(h, b)>>
            /\ pc' = "vault"
  /\ UNCHANGED <<notifierPending, env, runs, other, uiVars, cli>>

\* login: validation, kubeconfig loading and the Kubernetes secret read
LoginPOST(ver, b, configLoads) ==
  /\ Begin(ver, b)
  /\ IF Validation(ver, b) # <<>>
       THEN /\ resp' = Validation(ver, b)
            /\ outbound' = <<>>
            /\ pc' = "done"
       ELSE IF ~configLoads
         THEN /\ resp' = ClientInitFailed
              /\ outbound' = <<>>
              /\ pc' = "done"
         ELSE /\ resp' = <<>>
              /\ outbound' = <<K8sCall(b)>>
              /\ pc' = "k8s"
  /\ UNCHANGED <<notifierPending, env, runs, other, uiVars, cli>>

\* login: readNamespacedSecret has settled
K8sSecretRead(k) ==
  /\ pc = "k8s"
  /\ k8sAnswer' = k
  /\ IF K8sPhaseResponse(handler, body, k) # <<>>
       THEN /\ resp' = K8sPhaseResponse(handler, body, k)
            /\ pc' = "done"
            /\ UNCHANGED outbound
       ELSE /\ outbound' = Append(outbound, LoginVaultCall(body, k))
            /\ pc' = "vault"
            /\ UNCHANGED resp
  /\ UNCHANGED <<handler, body, notified, notifierPending, vaultAnswer, env,
                 runs, notificationEmail, other, uiVars, cli>>

\* the first login handler: the secret_id comes in the request body
LoginKeyPOST(b) == DirectPOST("login_key", b)

LookupPOST(b) == DirectPOST("lookup", b)

RevokePOST(b) == DirectPOST("revoke", b)

ValidateAccessPOST(b) == DirectPOST("validate_access", b)

CapabilitiesSelfPOST(b) == DirectPOST("capabilities_self", b)

GetSecretPOST(b) == DirectPOST("get_secret", b)

UnwrapVersions == {"unwrap", "unwrap0"}

UnwrapPOST(ver, b) ==
  /\ notifierPending < MaxPending
  /\ DirectPOST(ver, b)

\* GET config / endpoints
ConfigGET ==
  /\ Begin("config", NoBody)
  /\ resp' = ConfigSuccess(env)
  /\ outbound' = <<>>
  /\ pc' = "done"
  /\ UNCHANGED <<notifierPending, env, runs, other, uiVars, cli>>

\* VaultResponse behind a client that sends a failed request once more
\* before giving up
VaultResponseRetrying(v) ==
  /\ pc = "vault"
  /\ vaultAnswer' = v
  /\ IF v.kind # "ok" /\ vaultAnswer = <<>>
       THEN /\ outbound' = Append(outbound, outbound[Len(outbound)])
            /\ pc' = "vault"
            /\ UNCHANGED <<notified, notifierPending, runs, resp>>
       ELSE LET calls == Notifications(handler, body, notificationEmail, v)
                started == [i \in 1..Len(calls) |->
                              sendUnwrapNotification(env, calls[i].email,
                                                     calls[i])]
            IN /\ notified' = calls
               /\ notifierPending' = notifierPending + Len(calls)
               /\ runs' = runs \o started
               /\ resp' = IF handler \in {"login", "login0"}
                            THEN LoginReply(handler, body,
                                            finalAccessKey(k8sAnswer,
                                                           body.secretKey), v)
                          ELSE IF handler \in {"unwrap", "unwrap0"}
                            THEN UnwrapReply(handler, body, v, started)
                            ELSE VaultReply(handler, body, v)
               /\ pc' = "done"
               /\ UNCHANGED outbound
  /\ UNCHANGED <<handler, body, k8sAnswer, env, notificationEmail, other,
                 uiVars, cli>>

\* the awaited Vault call has settled with v: the handler triggers its
\* notifications, if any, and returns its response
VaultResponse(v) ==
  /\ pc = "vault"
  /\ vaultAnswer' = v
  /\ LET calls == Notifications(handler, body, notificationEmail, v)
         started == [i \in 1..Len(calls) |->
                       sendUnwrapNotification(env, calls[i].email, calls[i])]
     IN /\ notified' = calls
        /\ notifierPending' = notifierPending + Len(calls)
        /\ runs' = runs \o started
        /\ resp' = IF handler \in {"login", "login0"}
                     THEN LoginReply(handler, body,
                                     finalAccessKey(k8sAnswer, body.secretKey), v)
                   ELSE IF handler \in {"unwrap", "unwrap0"}
                     THEN UnwrapReply(handler, body, v, started)
                     ELSE VaultReply(handler, body, v)
  /\ pc' = "done"
  /\ UNCHANGED <<handler, body, outbound, k8sAnswer, env, notificationEmail,
                 other, uiVars, cli>>

\* the response has been sent and the invocation is over; nothing of the
\* request is kept, a handler has no state of its own
RequestEnds ==
  /\ pc = "done"
  /\ pc' = "idle"
  /\ handler' = "none"
  /\ body' = NoBody
  /\ outbound' = <<>>
  /\ resp' = <<>>
  /\ notified' = <<>>
  /\ k8sAnswer' = <<>>
  /\ vaultAnswer' = <<>>
  /\ notificationEmail' = <<>>
  /\ UNCHANGED <<notifierPending, env, runs, other, uiVars, cli>>

\* an invocation that has not started
Idle ==
  [pc |-> "idle", handler |-> "none", body |-> NoBody, outbound |-> <<>>,
   resp |-> <<>>, notified |-> <<>>, k8sAnswer |-> <<>>, vaultAnswer |-> <<>>,
   notificationEmail |-> <<>>]

\* what the running invocation holds: its request, its locals, its position
Closure ==
  [pc |-> pc, handler |-> handler, body |-> body, outbound |-> outbound,
   resp |-> resp, notified |-> notified, k8sAnswer |-> k8sAnswer,
   vaultAnswer |-> vaultAnswer, notificationEmail |-> notificationEmail]

\* Resume with notificationEmail declared at module level: the suspended
\* invocation finds the value the running one left
ResumeSharingEmail(o, running) ==
  [o EXCEPT !.notificationEmail = running.notificationEmail]

\* what a suspended invocation o finds when it resumes after `running` has
\* run: all it holds is declared inside POST, so it finds it as it left it
Resume(o, running) == o

\* the event loop leaves the running invocation at its await, or after its
\* return, and runs the other one
Switch ==
  /\ other' = Closure
  /\ LET o == Resume(other, Closure) IN
       /\ pc' = o.pc
       /\ handler' = o.handler
       /\ body' = o.body
       /\ outbound' = o.outbound
       /\ resp' = o.resp
       /\ notified' = o.notified
       /\ k8sAnswer' = o.k8sAnswer
       /\ vaultAnswer' = o.vaultAnswer
       /\ notificationEmail' = o.notificationEmail
  /\ UNCHANGED <<notifierPending, env, runs, uiVars, cli>>

\* sendEmailSettles for a loop without its try/catch: a throw of sendEmail
\* ends the loop and rejects the call
sendEmailSettlesUncaught(i, o) ==
  /\ i \in 1..Len(runs)
  /\ runs[i].state = "sending"
  /\ LET r == runs[i]
         n == Len(r.attempts) + 1
         tried == [r EXCEPT !.attempts = Append(@, [to |-> r.emails[n],
                                                   subject |-> r.subject,
                                                   outcome |-> o])]
         counted ==
           [tried EXCEPT !.success = IF o = "sent" THEN @ + 1 ELSE @,
                         !.failed = IF o = "sent" THEN @ ELSE @ + 1,
                         !.details = Append(@, IF o = "sent"
                                                 THEN "Successfully sent to"
                                                 ELSE "Failed to send to")]
     IN runs' = [runs EXCEPT ![i] =
                   IF o = "threw" THEN [tried EXCEPT !.state = "rejected"]
                   ELSE IF n = Len(r.emails)
                     THEN [counted EXCEPT !.state = "resolved"]
                     ELSE counted]
  /\ UNCHANGED <<pc, handler, body, outbound, resp, notified, notifierPending,
                 k8sAnswer, vaultAnswer, env, notificationEmail, other, uiVars, cli>>

\* sendEmail to the next recipient of notifier call i has come to outcome o:
\* the loop counts it and goes on to the next recipient, or returns result
sendEmailSettles(i, o) ==
  /\ i \in 1..Len(runs)
  /\ runs[i].state = "sending"
  /\ LET r == runs[i]
         n == Len(r.attempts) + 1
         counted ==
           [r EXCEPT !.attempts = Append(@, [to |-> r.emails[n],
                                             subject |-> r.subject,
                                             outcome |-> o]),
                     !.success = IF o = "sent" THEN @ + 1 ELSE @,
                     !.failed = IF o = "sent" THEN @ ELSE @ + 1,
                     !.details = Append(@, CASE o = "sent" -> "Successfully sent to"
                                             [] o = "failed" -> "Failed to send to"
                                             [] OTHER -> "Error sending to")]
     IN runs' = [runs EXCEPT ![i] = IF n = Len(r.emails)
                                      THEN [counted EXCEPT !.state = "resolved"]
                                      ELSE counted]
  /\ UNCHANGED <<pc, handler, body, outbound, resp, notified, notifierPending,
                 k8sAnswer, vaultAnswer, env, notificationEmail, other, uiVars, cli>>

\* a detached sendUnwrapNotification promise settles; the handler's .catch
\* only logs
NotifierSettle ==
  /\ notifierPending > 0
  /\ \E i \in 1..Len(runs) :
       /\ runs[i].state # "sending"
       /\ runs' = SubSeq(runs, 1, i - 1) \o SubSeq(runs, i + 1, Len(runs))
  /\ notifierPending' = notifierPending - 1
  /\ UNCHANGED <<pc, handler, body, outbound, resp, notified, k8sAnswer,
                 vaultAnswer, env, notificationEmail, other, uiVars, cli>>

----------------------------------------------------------------------------
(* Every response a handler can return for a body, over all the answers    *)
(* of Kubernetes and Vault: what the page can receive.                     *)

HandlerResponses(h, b) ==
  IF Validation(h, b) # <<>> THEN {Validation(h, b)}
  ELSE IF h \in LoginVersions THEN
    {ClientInitFailed}
    \cup {K8sPhaseResponse(h, b, k) :
            k \in {x \in K8sOutcomes : K8sPhaseResponse(h, b, x) # <<>>}}
    \cup {LoginReply(h, b, finalAccessKey(k, b.secretKey), v) :
            k \in {x \in K8sOutcomes : K8sPhaseResponse(h, b, x) = <<>>},
            v \in VaultOutcomes(h)}
  ELSE {VaultReply(h, b, v) : v \in VaultOutcomes(h)}

\* The route /api/vault/auth/approle/login that the current page posts to is
\* not among the sources.  Its answers are taken to be those of the
\* Kubernetes-backed login handler, or Vault's body forwarded unchanged as the
\* other handlers of that route family (revoke-self, capabilities-self,
\* unwrap) do.
ApproleLoginResponses(b) ==
  HandlerResponses("login", b) \cup {PassThrough(d) : d \in AuthData}

----------------------------------------------------------------------------
(* The page.                                                               *)

Pages == {"page", "page1", "page0"}
Ops == {"login", "lookup", "logout", "unwrap", "validateAccess"}

DefaultEndpoint == <<"a", "a">>
DefaultSecretKey == <<"k">>
UiValues == {<<>>, <<"a">>}

\* the useLocalStorage keys of each generation of the page
StorageKeys(p) ==
  IF p = "page0"
    THEN {"vault-endpoint", "vault-accessId", "vault-secretPath",
          "vault-keyName", "vault-authMethod"}
    ELSE {"vault-endpoint", "vault-accessId", "vault-secretPath",
          "vault-k8sNamespace", "vault-k8sSecretName", "vault-secretKey"}

\* useLocalStorage(key, initialValue): the initial values
InitialStored(p) ==
  [k \in StorageKeys(p) |->
     CASE k = "vault-endpoint" -> DefaultEndpoint
       [] k = "vault-secretKey" -> DefaultSecretKey
       [] k = "vault-authMethod" -> <<"approle">>
       [] OTHER -> <<>>]

\* PersistKey with a storage key for every field
PersistKeyEveryField(p, field) ==
  CASE field = "endpoint" -> "vault-endpoint"
    [] field = "accessId" -> "vault-accessId"
    [] field = "secretPath" -> "vault-secretPath"
    [] field = "keyName" -> "vault-keyName"
    [] field = "authMethod" -> "vault-authMethod"
    [] field = "k8sNamespace" -> "vault-k8sNamespace"
    [] field = "k8sSecretName" -> "vault-k8sSecretName"
    [] field = "secretKey" -> "vault-secretKey"
    [] OTHER -> "vault-accessKey"

\* the switch of handleInputChange: the key a field is persisted under,
\* "" for a field that is not persisted
PersistKey(p, field) ==
  CASE field = "endpoint" -> "vault-endpoint"
    [] field = "accessId" -> "vault-accessId"
    [] field = "secretPath" -> "vault-secretPath"
    [] field = "keyName" /\ p = "page0" -> "vault-keyName"
    [] field = "authMethod" /\ p = "page0" -> "vault-authMethod"
    [] field = "k8sNamespace" /\ p # "page0" -> "vault-k8sNamespace"
    [] field = "k8sSecretName" /\ p # "page0" -> "vault-k8sSecretName"
    [] field = "secretKey" /\ p # "page0" -> "vault-secretKey"
    [] OTHER -> ""

\* the fields the form components pass to handleInputChange
InputFields(p) ==
  IF p = "page0"
    THEN {"endpoint", "accessId", "accessKey", "secretPath", "keyName", "authMethod"}
    ELSE {"endpoint", "accessId", "secretPath", "authMethod", "k8sNamespace",
          "k8sSecretName", "secretKey"}

InputValues(field) ==
  IF field = "authMethod" THEN {<<"approle">>, <<"userpass">>} ELSE UiValues

\* window.localStorage.setItem(key, value)
setItem(ls, key, value) ==
  [k \in DOMAIN ls \cup {key} |-> IF k = key THEN value ELSE ls[k]]

\* the effect "Sync credentials with localStorage values when they change"
SyncCredentials(p, c, e, st) ==
  IF p = "page0"
    THEN [c EXCEPT !.endpoint = e,
                   !.accessId = st["vault-accessId"],
                   !.secretPath = st["vault-secretPath"],
                   !.keyName = st["vault-keyName"],
                   !.authMethod = st["vault-authMethod"]]
    ELSE [c EXCEPT !.endpoint = e,
                   !.accessId = st["vault-accessId"],
                   !.secretPath = st["vault-secretPath"],
                   !.authMethod = <<"approle">>,
                   !.k8sNamespace = st["vault-k8sNamespace"],
                   !.k8sSecretName = st["vault-k8sSecretName"],
                   !.secretKey = st["vault-secretKey"]]

\* the effect "Initialize endpoint state": setEndpoint(storedEndpoint || defaultEndpoint)
EndpointEffect(e, st0, st1) ==
  IF st1["vault-endpoint"] # st0["vault-endpoint"]
    THEN (IF st1["vault-endpoint"] = <<>> THEN DefaultEndpoint
                                          ELSE st1["vault-endpoint"])
    ELSE e

InitialCredentials(p) ==
  [endpoint |-> DefaultEndpoint, accessId |-> <<>>, accessKey |-> <<>>,
   secretPath |-> <<>>, keyName |-> <<>>, authMethod |-> <<"approle">>,
   k8sNamespace |-> <<>>, k8sSecretName |-> <<>>,
   secretKey |-> IF p = "page0" THEN <<>> ELSE DefaultSecretKey]

\* a hook that takes whatever local storage holds under the key
MountedAsStored(p, ls) ==
  [k \in StorageKeys(p) |->
     IF k \in DOMAIN ls THEN ls[k] ELSE InitialStored(p)[k]]

\* useLocalStorage on mount: const item = getItem(key); item ? item : initialValue
Mounted(p, ls) ==
  [k \in StorageKeys(p) |->
     IF k \in DOMAIN ls /\ ls[k] # <<>> THEN ls[k] ELSE InitialStored(p)[k]]

\* local storage as the page finds it: empty on a first visit, or holding
\* the login fields of an earlier visit
EarlierVisits(p) ==
  {<<>>,
   IF p = "page0"
     THEN [k \in {"vault-accessId"} |-> <<"a">>]
     ELSE [k \in {"vault-accessId", "vault-k8sNamespace", "vault-k8sSecretName"}
             |-> <<"a">>]}

NoLoading == [o \in Ops |-> FALSE]
NoInflight == [o \in Ops |-> <<>>]

\* setValue of the hook a field is persisted under, then the effects
handleInputChange(field, value) ==
  /\ edits < MaxEdits
  /\ edits' = edits + 1
  /\ field \in InputFields(ui)
  /\ value \in InputValues(field)
  /\ LET key == PersistKey(ui, field)
         st1 == IF key # "" THEN [stored EXCEPT ![key] = value] ELSE stored
         e1 == EndpointEffect(endpoint, stored, st1)
         c1 == [credentials EXCEPT ![field] = value]
     IN /\ stored' = st1
        /\ localStorage' = IF key # "" THEN setItem(localStorage, key, value)
                                       ELSE localStorage
        /\ endpoint' = e1
        /\ credentials' = IF st1 # stored \/ e1 # endpoint
                            THEN SyncCredentials(ui, c1, e1, st1)
                            ELSE c1
  /\ logoutResult' = -1
  /\ loginResult' = <<>>
  /\ UNCHANGED <<ui, unwrapCredentials, token, loading, inflight, toast, serverVars, cli>>

\* an endpoint combobox that also drops the token held for the endpoint left
handleEndpointChangeClearing(value) ==
  /\ edits < MaxEdits
  /\ edits' = edits + 1
  /\ value \in UiValues
  /\ LET st1 == [stored EXCEPT !["vault-endpoint"] = value]
         e1 == EndpointEffect(value, stored, st1)
     IN /\ stored' = st1
        /\ localStorage' = setItem(localStorage, "vault-endpoint", value)
        /\ endpoint' = e1
        /\ credentials' = IF st1 # stored \/ value # endpoint \/ e1 # value
                            THEN SyncCredentials(ui, credentials, e1, st1)
                            ELSE credentials
  /\ token' = <<>>
  /\ logoutResult' = -1
  /\ loginResult' = <<>>
  /\ UNCHANGED <<ui, unwrapCredentials, loading, inflight, toast, serverVars, cli>>

\* the endpoint combobox
handleEndpointChange(value) ==
  /\ edits < MaxEdits
  /\ edits' = edits + 1
  /\ value \in UiValues
  /\ LET st1 == [stored EXCEPT !["vault-endpoint"] = value]
         e1 == EndpointEffect(value, stored, st1)
     IN /\ stored' = st1
        /\ localStorage' = setItem(localStorage, "vault-endpoint", value)
        /\ endpoint' = e1
        /\ credentials' = IF st1 # stored \/ value # endpoint \/ e1 # value
                            THEN SyncCredentials(ui, credentials, e1, st1)
                            ELSE credentials
  /\ logoutResult' = -1
  /\ loginResult' = <<>>
  /\ UNCHANGED <<ui, unwrapCredentials, token, loading, inflight, toast, serverVars, cli>>

\* the unwrap form; it is part of the current page only
handleUnwrapCredentialChange(field, value) ==
  /\ ui = "page"
  /\ edits < MaxEdits
  /\ edits' = edits + 1
  /\ field \in {"wrappedToken", "notificationEmail"}
  /\ value \in (IF field = "wrappedToken" THEN UiValues ELSE {<<>>, <<"m">>})
  /\ unwrapCredentials' = [unwrapCredentials EXCEPT ![field] = value]
  /\ logoutResult' = -1
  /\ loginResult' = <<>>
  /\ UNCHANGED <<ui, credentials, endpoint, token, loading, stored, localStorage,
                 inflight, toast, serverVars, cli>>

----------------------------------------------------------------------------
(* The page's operations.  Each sends one request and, when the request    *)
(* settles, runs its then / catch / finally blocks.                        *)

\* the request bodies the page builds
LoginBody ==
  IF ui = "page0"
    THEN [NoBody EXCEPT !.endpoint = credentials.endpoint,
                        !.accessId = credentials.accessId,
                        !.accessKey = credentials.accessKey,
                        !.authMethod = credentials.authMethod]
    ELSE [NoBody EXCEPT !.endpoint = endpoint,
                        !.accessId = credentials.accessId,
                        !.authMethod = credentials.authMethod,
                        !.k8sNamespace = credentials.k8sNamespace,
                        !.k8sSecretName = credentials.k8sSecretName,
                        !.secretKey = credentials.secretKey]

\* page0 reads the endpoint from the credentials, the later pages from the
\* endpoint state
PageEndpoint == IF ui = "page0" THEN credentials.endpoint ELSE endpoint

TokenBody == [NoBody EXCEPT !.endpoint = PageEndpoint, !.token = token]

ValidateBody ==
  [NoBody EXCEPT !.endpoint = PageEndpoint, !.token = token,
                 !.secretPath = credentials.secretPath]

UnwrapBody ==
  [NoBody EXCEPT !.endpoint = endpoint,
                 !.wrappedToken = unwrapCredentials.wrappedToken,
                 !.notificationEmail = unwrapCredentials.notificationEmail]

\* the responses the page can receive for an operation's request; status 0
\* stands for a request that got no response
NoResponse == [status |-> 0, body |-> <<>>]

PageResponses(p, op, b) ==
  {NoResponse} \cup
  CASE op = "login" /\ p = "page" -> ApproleLoginResponses(b)
    [] op = "login" /\ p = "page1" ->
         HandlerResponses("login", b) \cup HandlerResponses("login0", b)
    [] op = "login" /\ p = "page0" -> HandlerResponses("login_key", b)
    [] op = "lookup" -> HandlerResponses("lookup", b)
    [] op = "logout" -> HandlerResponses("revoke", b)
    [] op = "unwrap" ->
         HandlerResponses("unwrap", b) \cup HandlerResponses("unwrap0", b)
    [] op = "validateAccess" /\ p = "page" -> HandlerResponses("capabilities_self", b)
    [] OTHER -> HandlerResponses("validate_access", b)

\* the responses that can settle the operation's request in flight
Pending(op) ==
  IF inflight[op] = <<>> THEN {} ELSE PageResponses(ui, op, inflight[op])

\* Resolves with validateStatus accepting every status below 500
ResolvesBelow500(r) == r.status >= 200 /\ r.status < 500

\* axios resolves on a 2xx status and rejects otherwise
Resolves(r) == r.status >= 200 /\ r.status < 300

\* setLoading(prev => ({ ...prev, [op]: true })) and the request
Send(op, b) ==
  /\ Cardinality({o \in Ops : inflight[o] # <<>>}) < MaxInflight
  /\ loading' = [loading EXCEPT ![op] = TRUE]
  /\ inflight' = [inflight EXCEPT ![op] = b]
  /\ UNCHANGED toast

\* a guard of the operation rejects it with a toast
Reject(text) ==
  /\ toast' = text
  /\ UNCHANGED <<loading, inflight>>

\* a request settled with no finally block: the flag is left as it was
SettledWithoutFinally(op) ==
  /\ inflight' = [inflight EXCEPT ![op] = <<>>]
  /\ UNCHANGED loading

\* the finally block
Settled(op) ==
  /\ loading' = [loading EXCEPT ![op] = FALSE]
  /\ inflight' = [inflight EXCEPT ![op] = <<>>]

\* result.auth?.client_token of the current page; '' when it is not there
ClientTokenOf(result) ==
  IF Get2(result, "auth", "client_token") # Undefined
    THEN result.auth.client_token ELSE <<>>

\* result.success && result.data?.token of the earlier pages
DataTokenOf(result) ==
  IF "success" \in DOMAIN result /\ result.success
     /\ "data" \in DOMAIN result /\ "token" \in DOMAIN result.data
     /\ result.data.token # Undefined
    THEN result.data.token[1] ELSE <<>>

\* the token the login's then-block finds in the response, '' when none
LoginToken(p, result) ==
  IF p = "page" THEN ClientTokenOf(result) ELSE DataTokenOf(result)

\* the test the then-block of lookup and validate-access makes on the
\* response: the current page looks for member f, the earlier pages for
\* result.success
Accepted(p, result, f) ==
  IF p = "page" THEN f \in DOMAIN result
                ELSE "success" \in DOMAIN result /\ result.success

testLogin ==
  /\ ~loading["login"]
  /\ IF ui = "page0"
       THEN credentials.endpoint # <<>> /\ credentials.accessId # <<>>
            /\ credentials.accessKey # <<>>
       ELSE credentials.k8sNamespace # <<>> /\ credentials.k8sSecretName # <<>>
            /\ credentials.secretKey # <<>>
  /\ IF ui # "page0" /\ (endpoint = <<>> \/ credentials.accessId = <<>>)
       THEN Reject("Please fill in endpoint and access ID")
       ELSE Send("login", LoginBody)
  /\ logoutResult' = -1
  /\ loginResult' = <<>>
  /\ UNCHANGED <<ui, credentials, unwrapCredentials, endpoint, token, stored,
                 localStorage, edits, serverVars, cli>>

\* the client token a login response carries: the token member of the
\* handler's data, or auth.client_token of Vault's body; '' when none
CarriedToken(result) ==
  IF "data" \in DOMAIN result /\ "token" \in DOMAIN result.data
     /\ result.data.token # Undefined
    THEN result.data.token[1]
  ELSE IF Get2(result, "auth", "client_token") # Undefined
    THEN result.auth.client_token
  ELSE <<>>


loginSettles ==
  \E got \in {[read |-> IF Resolves(r) THEN LoginToken(ui, r.body) ELSE <<>>,
               success |-> r.status = 200,
               token |-> CarriedToken(r.body)] : r \in Pending("login")} :
    /\ IF got.read # <<>>
         THEN /\ token' = got.read
              /\ toast' = "Login successful! Token retrieved."
         ELSE /\ toast' = "Login failed"
              /\ UNCHANGED token
    /\ Settled("login")
    /\ logoutResult' = -1
    /\ loginResult' = [success |-> got.success, token |-> got.token]
    /\ UNCHANGED <<ui, credentials, unwrapCredentials, endpoint, stored,
                   localStorage, edits, serverVars, cli>>

\* testLookup with neither the button's nor the function's test of the token
testLookupUnguarded ==
  /\ ~loading["lookup"]
  /\ IF PageEndpoint = <<>>
       THEN Reject("Please login first to get a token")
       ELSE Send("lookup", TokenBody)
  /\ logoutResult' = -1
  /\ loginResult' = <<>>
  /\ UNCHANGED <<ui, credentials, unwrapCredentials, endpoint, token, stored,
                 localStorage, edits, serverVars, cli>>

testLookup ==
  /\ ~loading["lookup"]
  /\ token # <<>>
  /\ IF PageEndpoint = <<>>
       THEN Reject("Please login first to get a token")
       ELSE Send("lookup", TokenBody)
  /\ logoutResult' = -1
  /\ loginResult' = <<>>
  /\ UNCHANGED <<ui, credentials, unwrapCredentials, endpoint, token, stored,
                 localStorage, edits, serverVars, cli>>

lookupSettles ==
  \E shown \in {IF Resolves(r) /\ Accepted(ui, r.body, "data")
                  THEN "Token lookup successful!"
                  ELSE "Token lookup failed" : r \in Pending("lookup")} :
    /\ toast' = shown
    /\ Settled("lookup")
    /\ logoutResult' = -1
    /\ loginResult' = <<>>
    /\ UNCHANGED <<ui, credentials, unwrapCredentials, endpoint, token, stored,
                   localStorage, edits, serverVars, cli>>

testLogout ==
  /\ ui = "page"
  /\ ~loading["logout"]
  /\ IF endpoint = <<>> \/ token = <<>>
       THEN Reject("No token to revoke")
       ELSE Send("logout", TokenBody)
  /\ logoutResult' = -1
  /\ loginResult' = <<>>
  /\ UNCHANGED <<ui, credentials, unwrapCredentials, endpoint, token, stored,
                 localStorage, edits, serverVars, cli>>

logoutSettles ==
  \E got \in {[status |-> r.status, resolved |-> Resolves(r)] :
                r \in Pending("logout")} :
    /\ logoutResult' = got.status
    /\ loginResult' = <<>>
    /\ IF got.resolved
         THEN /\ token' = <<>>
              /\ toast' = "Logout successful! Token revoked."
         ELSE /\ toast' = "Logout failed"
              /\ UNCHANGED token
    /\ Settled("logout")
    /\ UNCHANGED <<ui, credentials, unwrapCredentials, endpoint, stored,
                   localStorage, edits, serverVars, cli>>

testUnwrap ==
  /\ ui = "page"
  /\ ~loading["unwrap"]
  /\ unwrapCredentials.wrappedToken # <<>>
  /\ IF endpoint = <<>>
       THEN Reject("Please fill in endpoint and wrapped token")
       ELSE Send("unwrap", UnwrapBody)
  /\ logoutResult' = -1
  /\ loginResult' = <<>>
  /\ UNCHANGED <<ui, credentials, unwrapCredentials, endpoint, token, stored,
                 localStorage, edits, serverVars, cli>>

unwrapSettles ==
  \E shown \in {IF Resolves(r)
                  THEN "Token unwrapped successfully!"
                  ELSE "Unwrap failed" : r \in Pending("unwrap")} :
    /\ toast' = shown
    /\ Settled("unwrap")
    /\ logoutResult' = -1
    /\ loginResult' = <<>>
    /\ UNCHANGED <<ui, credentials, unwrapCredentials, endpoint, token, stored,
                   localStorage, edits, serverVars, cli>>

testValidateAccess ==
  /\ ~loading["validateAccess"]
  /\ token # <<>>
  /\ IF PageEndpoint = <<>> \/ credentials.secretPath = <<>>
       THEN Reject("Please login first and fill in secret path")
       ELSE Send("validateAccess", ValidateBody)
  /\ logoutResult' = -1
  /\ loginResult' = <<>>
  /\ UNCHANGED <<ui, credentials, unwrapCredentials, endpoint, token, stored,
                 localStorage, edits, serverVars, cli>>

validateAccessSettles ==
  \E shown \in {IF Resolves(r) /\ Accepted(ui, r.body, "capabilities")
                  THEN "Permission validation successful!"
                  ELSE "Permission validation failed" : r \in Pending("validateAccess")} :
    /\ toast' = shown
    /\ Settled("validateAccess")
    /\ logoutResult' = -1
    /\ loginResult' = <<>>
    /\ UNCHANGED <<ui, credentials, unwrapCredentials, endpoint, token, stored,
                   localStorage, edits, serverVars, cli>>

----------------------------------------------------------------------------
(* The command-line script.                                                *)

\* the script has not been started
NotRun ==
  [pc |-> "none", args |-> <<>>, ENDPOINT |-> <<>>, ROLE_ID |-> <<>>,
   SECRET_ID |-> <<>>, SECRET_PATH |-> <<>>, VAULT_TOKEN |-> <<>>,
   VAULT_ENDPOINT |-> <<>>, VAULT_ROLE_ID |-> <<>>, VAULT_SECRET_ID |-> <<>>,
   requests |-> <<>>, responses |-> <<>>, exit |-> -1]

\* "${ENDPOINT%/}": the shortest suffix matching / is removed
dropSlashSuffix(s) == IF endsWith(s, "/") THEN sliceDropLast(s) ELSE s

\* "${SECRET_PATH#/}": the shortest prefix matching / is removed
dropSlashPrefix(s) == IF startsWith(s, "/") THEN substring1(s) ELSE s

\* validate_endpoint: ENDPOINT afterwards, and whether it returned 0
validate_endpoint(c) ==
  LET e == IF c.ENDPOINT = <<>> THEN c.VAULT_ENDPOINT ELSE c.ENDPOINT
  IN IF e = <<>> THEN [ok |-> FALSE, ENDPOINT |-> c.ENDPOINT]
                 ELSE [ok |-> TRUE, ENDPOINT |-> dropSlashSuffix(e)]

\* what curl hands back: it failed, or the body it printed, which is a JSON
\* object (with its auth.client_token, '' when there is none, and whether
\* it has an errors member) or something else
CurlFailed == [kind |-> "failed", token |-> <<>>, errors |-> FALSE]
NotJson == [kind |-> "text", token |-> <<>>, errors |-> FALSE]
JsonBody(t, errs) == [kind |-> "json", token |-> t, errors |-> errs]

\* make_request: curl -s exits 0 whatever the HTTP status, and non-zero
\* when the URL has no host or the transfer fails
make_request(url) ==
  IF startsWith(url, "/")
    THEN {CurlFailed}
    ELSE {CurlFailed, NotJson} \cup
         {JsonBody(t, errs) : t \in Tokens, errs \in BOOLEAN}

CliRequest(method, url, t, data) ==
  [method |-> method, url |-> url, token |-> t, data |-> data]

\* the request is handed to curl and what it returns is kept
Curl(c, req, r) ==
  [c EXCEPT !.requests = Append(@, req), !.responses = Append(@, r)]

\* the script leaves with the status
Exit(c, status) == [c EXCEPT !.pc = "exited", !.exit = status]

\* main without the step that follows a lookup: it aborts when the lookup
\* failed
AfterLookupAborting(c, ok) ==
  IF ok THEN [c EXCEPT !.pc = "get_secret"] ELSE Exit(c, 1)

\* main after vault_lookup: a failure is a warning only
AfterLookup(c, ok) == [c EXCEPT !.pc = "get_secret"]

\* the top-level assignments, parse_args and the checks of main, for the
\* options and the environment the script is started with
main(e, roleId, secretId, secretPath, envEndpoint, envRoleId, envSecretId) ==
  /\ cli.pc = "none"
  /\ LET c == [NotRun EXCEPT !.args = [endpoint |-> e, secretPath |-> secretPath],
                             !.ENDPOINT = e, !.ROLE_ID = roleId,
                             !.SECRET_ID = secretId, !.SECRET_PATH = secretPath,
                             !.VAULT_ENDPOINT = envEndpoint,
                             !.VAULT_ROLE_ID = envRoleId,
                             !.VAULT_SECRET_ID = envSecretId]
     IN cli' = IF \/ (e = <<>> /\ envEndpoint = <<>>)
                  \/ (roleId = <<>> /\ envRoleId = <<>>)
                  \/ (secretId = <<>> /\ envSecretId = <<>>)
                  \/ secretPath = <<>>
                 THEN Exit(c, 1)
                 ELSE [c EXCEPT !.pc = "login"]
  /\ UNCHANGED <<serverVars, uiVars>>

\* vault_login, and main leaving when it fails
vault_login ==
  /\ cli.pc = "login"
  /\ LET v == validate_endpoint(cli)
         c1 == [cli EXCEPT !.ENDPOINT = v.ENDPOINT,
                  !.ROLE_ID = IF @ = <<>> THEN cli.VAULT_ROLE_ID ELSE @,
                  !.SECRET_ID = IF @ = <<>> THEN cli.VAULT_SECRET_ID ELSE @]
         req == CliRequest("POST", c1.ENDPOINT \o AppRoleLoginPath, <<>>,
                           [role_id |-> c1.ROLE_ID, secret_id |-> c1.SECRET_ID])
     IN IF ~v.ok \/ c1.ROLE_ID = <<>> \/ c1.SECRET_ID = <<>>
          THEN cli' = Exit(c1, 1)
          ELSE \E r \in make_request(req.url) :
                 LET c2 == Curl(c1, req, r)
                     c3 == [c2 EXCEPT !.VAULT_TOKEN =
                              IF r.kind = "json" THEN r.token ELSE <<>>]
                 IN cli' = IF r.kind = "failed" THEN Exit(c2, 1)
                           ELSE IF c3.VAULT_TOKEN = <<>> THEN Exit(c3, 1)
                           ELSE [c3 EXCEPT !.pc = "lookup"]
  /\ UNCHANGED <<serverVars, uiVars>>

\* vault_lookup, and main going on whatever it returns
vault_lookup ==
  /\ cli.pc = "lookup"
  /\ LET v == validate_endpoint(cli)
         c1 == [cli EXCEPT !.ENDPOINT = v.ENDPOINT]
         req == CliRequest("GET", c1.ENDPOINT \o LookupSelfPath,
                           c1.VAULT_TOKEN, <<>>)
     IN IF ~v.ok \/ c1.VAULT_TOKEN = <<>>
          THEN cli' = AfterLookup(c1, FALSE)
          ELSE \E r \in make_request(req.url) :
                 cli' = AfterLookup(Curl(c1, req, r),
                                    r.kind = "json" /\ ~r.errors)
  /\ UNCHANGED <<serverVars, uiVars>>

\* vault_get_secret, and main leaving with its status
vault_get_secret ==
  /\ cli.pc = "get_secret"
  /\ LET v == validate_endpoint(cli)
         c1 == [cli EXCEPT !.ENDPOINT = v.ENDPOINT]
         c2 == [c1 EXCEPT !.SECRET_PATH = dropSlashPrefix(@)]
         req == CliRequest("GET",
                           c2.ENDPOINT \o V1SecretDataPrefix \o c2.SECRET_PATH,
                           c2.VAULT_TOKEN, <<>>)
     IN IF ~v.ok \/ c1.VAULT_TOKEN = <<>> \/ c1.SECRET_PATH = <<>>
          THEN cli' = Exit(c1, 1)
          ELSE \E r \in make_request(req.url) :
                 cli' = Exit(Curl(c2, req, r),
                             IF r.kind = "json" /\ ~r.errors THEN 0 ELSE 1)
  /\ UNCHANGED <<serverVars, uiVars>>

----------------------------------------------------------------------------
(* Specifications.                                                         *)

InitServer ==
  /\ pc = "idle"
  /\ handler = "none"
  /\ body = NoBody
  /\ outbound = <<>>
  /\ resp = <<>>
  /\ notified = <<>>
  /\ notifierPending = 0
  /\ k8sAnswer = <<>>
  /\ vaultAnswer = <<>>
  /\ runs = <<>>
  /\ notificationEmail = <<>>
  /\ other = Idle
  /\ cli = NotRun

\* the page after its mount effects, over local storage ls left by earlier
\* visits
InitPage(p, ls) ==
  /\ ui = p
  /\ localStorage = ls
  /\ stored = Mounted(p, ls)
  /\ endpoint = DefaultEndpoint
  /\ credentials = SyncCredentials(p, InitialCredentials(p), DefaultEndpoint,
                                   Mounted(p, ls))
  /\ unwrapCredentials = [wrappedToken |-> <<>>, notificationEmail |-> <<>>]
  /\ token = <<>>
  /\ loading = NoLoading
  /\ inflight = NoInflight
  /\ toast = ""
  /\ edits = 0
  /\ logoutResult = -1
  /\ loginResult = <<>>

\* the handlers, serving one request after another, in a server started
\* without configuration
Init == InitServer /\ env = NoEnv /\ InitPage("page", <<>>)

Next ==
  \/ \E ver \in LoginVersions, b \in LoginBodies, configLoads \in BOOLEAN :
       LoginPOST(ver, b, configLoads)
  \/ \E k \in K8sOutcomes : K8sSecretRead(k)
  \/ \E b \in LoginKeyBodies : LoginKeyPOST(b)
  \/ \E b \in TokenBodies : LookupPOST(b)
  \/ \E b \in TokenBodies : RevokePOST(b)
  \/ \E b \in PathBodies : ValidateAccessPOST(b)
  \/ \E b \in PathBodies : CapabilitiesSelfPOST(b)
  \/ \E b \in SecretBodies : GetSecretPOST(b)
  \/ \E ver \in UnwrapVersions, b \in UnwrapBodies : UnwrapPOST(ver, b)
  \/ ConfigGET
  \/ \E v \in VaultOutcomes(handler) : VaultResponse(v)
  \/ RequestEnds
  \/ NotifierSettle

Spec == Init /\ [][Next]_vars

\* the options and environment values the script is started with
CliPaths == Str(MaxLen)

NextCli ==
  \/ \E e \in Endpoints, roleId \in Present, secretId \in Present,
        secretPath \in CliPaths, envEndpoint \in Present,
        envRoleId \in Present, envSecretId \in Present :
       main(e, roleId, secretId, secretPath, envEndpoint, envRoleId, envSecretId)
  \/ vault_login
  \/ vault_lookup
  \/ vault_get_secret

SpecCli == Init /\ [][NextCli]_vars

\* the page, in each of its generations, with the handlers answering
InitUI == InitServer /\ env = NoEnv /\ \E p \in Pages : \E ls \in EarlierVisits(p) : InitPage(p, ls)

NextUI ==
  \/ \E f \in InputFields(ui), v \in UiValues \cup {<<"approle">>, <<"userpass">>} :
       handleInputChange(f, v)
  \/ \E v \in UiValues : handleEndpointChange(v)
  \/ \E f \in {"wrappedToken", "notificationEmail"}, v \in UiValues \cup {<<"m">>} :
       handleUnwrapCredentialChange(f, v)
  \/ testLogin
  \/ loginSettles
  \/ testLookup
  \/ lookupSettles
  \/ testLogout
  \/ logoutSettles
  \/ testUnwrap
  \/ unwrapSettles
  \/ testValidateAccess
  \/ validateAccessSettles

SpecUI == InitUI /\ [][NextUI]_vars

\* the page is loaded again: the component state starts afresh over the
\* local storage the visit so far has left, and the mount effects run
remount ==
  /\ inflight = NoInflight
  /\ LET st == Mounted(ui, localStorage)
         e == IF st["vault-endpoint"] = <<>> THEN DefaultEndpoint
                                             ELSE st["vault-endpoint"]
     IN /\ stored' = st
        /\ endpoint' = e
        /\ credentials' = SyncCredentials(ui, InitialCredentials(ui), e, st)
  /\ unwrapCredentials' = [wrappedToken |-> <<>>, notificationEmail |-> <<>>]
  /\ token' = <<>>
  /\ loading' = NoLoading
  /\ toast' = ""
  /\ logoutResult' = -1
  /\ loginResult' = <<>>
  /\ UNCHANGED <<ui, localStorage, inflight, edits, serverVars, cli>>

\* visits of the page one after another, the user editing the form
NextRemount ==
  \/ \E f \in InputFields(ui), v \in UiValues \cup {<<"approle">>, <<"userpass">>} :
       handleInputChange(f, v)
  \/ \E v \in UiValues : handleEndpointChange(v)
  \/ remount

SpecRemount == InitUI /\ [][NextRemount]_vars

\* the page found with the login fields of an earlier visit, the user
\* filling in what is not persisted and running the operations; every
\* request settles: axios resolves or rejects each call,
\* and the continuation of the awaiting operation then runs
InitUIFair ==
  /\ InitServer
  /\ env = NoEnv
  /\ \E p \in Pages : \E ls \in EarlierVisits(p) \ {<<>>} : InitPage(p, ls)

NextUIFair ==
  \/ \E f \in {"secretPath", "accessKey"} : handleInputChange(f, <<"a">>)
  \/ handleUnwrapCredentialChange("wrappedToken", <<"a">>)
  \/ testLogin
  \/ loginSettles
  \/ testLookup
  \/ lookupSettles
  \/ testLogout
  \/ logoutSettles
  \/ testUnwrap
  \/ unwrapSettles
  \/ testValidateAccess
  \/ validateAccessSettles

\* the finally block of the operation runs for its request in flight
Finally(op) == inflight[op] # <<>> /\ Settled(op)

SpecUIFair ==
  /\ InitUIFair
  /\ [][NextUIFair]_vars
  /\ \A op \in Ops : WF_<<loading, inflight>>(Finally(op))

\* the unwrap and config handlers and the notifier, in a server started
\* with each of the environments
InitEnv == InitServer /\ env \in Environments /\ InitPage("page", <<>>)

NextEnv ==
  \/ \E ver \in UnwrapVersions, b \in MailBodies : UnwrapPOST(ver, b)
  \/ ConfigGET
  \/ \E v \in VaultOutcomes(handler) : VaultResponse(v)
  \/ \E i \in 1..Len(runs), o \in SendOutcomes : sendEmailSettles(i, o)
  \/ NotifierSettle
  \/ RequestEnds

SpecEnv == InitEnv /\ [][NextEnv]_vars

\* two invocations in flight at once, the event loop switching between
\* them at their awaits
NextConcurrent ==
  \/ \E ver \in UnwrapVersions :
       \E b \in {x \in MailBodies : x.wrappedToken # <<>>
                                     /\ x.notificationEmail # NonString} :
         UnwrapPOST(ver, b)
  \/ \E b \in {x \in TokenBodies : x.endpoint = <<"a">> /\ x.token # <<>>} :
       LookupPOST(b)
  \/ \E v \in VaultOutcomes(handler) : VaultResponse(v)
  \/ Switch
  \/ NotifierSettle
  \/ RequestEnds

SpecConcurrent == Init /\ [][NextConcurrent]_vars

----------------------------------------------------------------------------
(* Properties.                                                             *)

\* the request being served went to one of the two capabilities handlers
\* and has issued its Vault call
CapabilitiesCallMade ==
  /\ handler \in {"validate_access", "capabilities_self"}
  /\ outbound # <<>>

\* C1: in the capabilities-check handlers the path sent to Vault's
\* capabilities-self API is secretPath without its first '/' when secretPath
\* starts with '/', and 'secret/data/' followed by secretPath otherwise.
C1_ResolvedPath ==
  CapabilitiesCallMade =>
    outbound[1].payload.path =
      (IF startsWith(body.secretPath, "/")
         THEN substring1(body.secretPath)
         ELSE SecretDataPrefix \o body.secretPath)

\* the secret-retrieval handler has issued its Vault call
SecretCallMade == handler = "get_secret" /\ outbound # <<>>

\* the path part of the secret URL
SecretUrlPath(secretPath) ==
  IF startsWith(secretPath, "/") THEN secretPath
                                 ELSE V1SecretDataPrefix \o secretPath

\* C2 (as amended): the secret-retrieval handler fetches, and the Final URL
\* Preview shows for the same endpoint and secretPath, the endpoint with one
\* trailing '/' removed, followed by secretPath when secretPath starts with
\* '/' and by '/v1/secret/data/' and secretPath otherwise.
C2_SecretUrl ==
  SecretCallMade =>
    /\ outbound[1].url =
         vaultUrl(body.endpoint) \o SecretUrlPath(body.secretPath)
    /\ FinalUrlPreview(body.endpoint, body.secretPath) = Def(outbound[1].url)

\* a secret is fetched through an endpoint written with a trailing '/'
C2_Witness ==
  /\ SecretCallMade
  /\ endsWith(body.endpoint, "/")
  /\ Len(body.endpoint) > 1
  /\ ~startsWith(body.secretPath, "/")

\* C2 as stated: the URL is the endpoint as given, followed by secretPath
\* or by '/v1/secret/data/' and secretPath.
C2_UrlFromEndpointAsGiven ==
  SecretCallMade =>
    /\ outbound[1].url = body.endpoint \o SecretUrlPath(body.secretPath)
    /\ FinalUrlPreview(body.endpoint, body.secretPath) =
         Def(body.endpoint \o SecretUrlPath(body.secretPath))

\* Vault has answered the capabilities request with a 2xx
CapabilitiesAnswered ==
  /\ handler \in {"validate_access", "capabilities_self"}
  /\ pc = "done"
  /\ vaultAnswer # <<>>
  /\ vaultAnswer.kind = "ok"

\* C3: for every capability list Vault returns to a capabilities-check
\* handler, an empty or absent one included, the response's hasAccess is
\* true exactly when the list contains 'read' or 'list'.
C3_HasAccess ==
  CapabilitiesAnswered =>
    Get2(resp.body, "data", "hasAccess") =
      Def(includes(capabilitiesOf(vaultAnswer.data), "read")
          \/ includes(capabilitiesOf(vaultAnswer.data), "list"))

\* the Kubernetes secret was read and does not hold the requested key
KeyAbsent ==
  /\ handler \in LoginVersions
  /\ pc = "done"
  /\ k8sAnswer # <<>>
  /\ k8sAnswer.kind = "ok"
  /\ (k8sAnswer.hasData => body.secretKey \notin DOMAIN k8sAnswer.data)

\* C7: when the login handler reads the Kubernetes secret and the requested
\* key is not in its data, it answers 404 with an error naming the key, the
\* secret and the namespace, and issues no request to Vault.
C7_KeyNotFound ==
  KeyAbsent =>
    /\ resp.status = 404
    /\ resp.body.success = FALSE
    /\ resp.body.error.key = body.secretKey
    /\ resp.body.error.secret = body.k8sSecretName
    /\ resp.body.error.namespace = body.k8sNamespace
    /\ \A i \in 1..Len(outbound) : outbound[i].to # "vault"

\* the secret holds data, under another key than the requested one
C7_Witness ==
  /\ KeyAbsent
  /\ handler = "login"
  /\ k8sAnswer.hasData
  /\ DOMAIN k8sAnswer.data # {}
  /\ resp.status = 404

\* the Kubernetes answers after which the login handler goes on to Vault
SecretsAccepted(ver, b) ==
  {k \in K8sOutcomes : K8sPhaseResponse(ver, b, k) = <<>>}

\* the login request in flight, served by the Kubernetes-backed handler ver,
\* is answered the same whatever secret the Kubernetes read yields
SecretIndependent(ver, b) ==
  \A k1 \in SecretsAccepted(ver, b), k2 \in SecretsAccepted(ver, b) :
    \A v \in VaultOutcomes(ver) :
      LoginReply(ver, b, finalAccessKey(k1, b.secretKey), v) =
        LoginReply(ver, b, finalAccessKey(k2, b.secretKey), v)

\* C4: the AppRole secret never reaches the browser: the login response
\* does not depend on the decoded secret, and the page neither holds a
\* secret_id value nor sends one in a request.
C4_SecretStaysServerSide ==
  /\ credentials.accessKey = <<>>
  /\ \A op \in Ops : inflight[op] # <<>> => inflight[op].accessKey = <<>>
  /\ (ui # "page0" /\ inflight["login"] # <<>>) =>
       \A ver \in LoginVersions : SecretIndependent(ver, inflight["login"])

\* the local-storage keys the claim lists
C5_ClaimedKeys ==
  {"vault-endpoint", "vault-accessId", "vault-secretPath",
   "vault-k8sNamespace", "vault-k8sSecretName", "vault-secretKey"}

\* what is kept under each key is the value of that key's form field
C5_FieldValuesOnly ==
  \A k \in DOMAIN localStorage :
    /\ k \in DOMAIN stored
    /\ localStorage[k] = stored[k]
    /\ localStorage[k] # TokenValue
    /\ localStorage[k] # <<"m">>

\* C5 (as amended): the only local-storage keys ever written are those of
\* endpoint, access id, secret path, the Kubernetes namespace, secret name
\* and key and, in the first generation of the page, key name and auth
\* method; the token, the wrapped token, the notification email and the
\* accessKey are never written.
C5_PersistedKeys ==
  /\ DOMAIN localStorage \subseteq
       C5_ClaimedKeys \cup {"vault-keyName", "vault-authMethod"}
  /\ C5_FieldValuesOnly

\* a token is held, a wrapped token is typed in and a field has been saved
C5_Witness ==
  /\ ui = "page"
  /\ token # <<>>
  /\ unwrapCredentials.wrappedToken # <<>>
  /\ "vault-secretPath" \in DOMAIN localStorage

\* C5 as stated: only the six keys are ever written
C5_OnlyClaimedKeys ==
  /\ DOMAIN localStorage \subseteq C5_ClaimedKeys
  /\ C5_FieldValuesOnly

\* the fields each POST handler requires
C6_Required(h) ==
  CASE h \in LoginVersions ->
         {"endpoint", "accessId", "k8sNamespace", "k8sSecretName", "secretKey"}
    [] h = "login_key" -> {"endpoint", "accessId", "accessKey"}
    [] h \in {"lookup", "revoke"} -> {"endpoint", "token"}
    [] h \in {"unwrap", "unwrap0"} -> {"endpoint", "wrappedToken"}
    [] OTHER -> {"endpoint", "token", "secretPath"}

\* the word an error message uses for a field
C6_Word(f) ==
  CASE f = "k8sNamespace" -> "namespace"
    [] f = "k8sSecretName" -> "secretName"
    [] OTHER -> f

\* the required fields the request body lacks
C6_Missing == {f \in C6_Required(handler) : body[f] = <<>>}

\* a POST handler is serving a body that lacks a required field
C6_FieldMissing ==
  /\ handler \notin {"none", "config"}
  /\ C6_Missing # {}

\* the 400 answer, with no outbound call and no notification
C6_Rejected ==
  /\ pc = "done"
  /\ resp.status = 400
  /\ resp.body.success = FALSE
  /\ outbound = <<>>
  /\ notified = <<>>

\* C6 (as amended): a body missing a required field is answered 400 with
\* success:false and an error naming the fields of the first required-field
\* check that fails, at least one of which is missing, and no call to
\* Kubernetes, Vault or the notifier is made.
C6_MissingField ==
  C6_FieldMissing =>
    /\ C6_Rejected
    /\ resp.body.error.names \subseteq {C6_Word(f) : f \in C6_Required(handler)}
    /\ \E f \in C6_Missing : C6_Word(f) \in resp.body.error.names

\* login is refused for its Kubernetes fields, endpoint and accessId given
C6_Witness ==
  /\ handler = "login"
  /\ pc = "done"
  /\ body.endpoint # <<>>
  /\ body.accessId # <<>>
  /\ body.k8sNamespace = <<>>
  /\ resp.status = 400

\* C6 as stated: the error names every missing field
C6_AllMissingNamed ==
  C6_FieldMissing =>
    /\ C6_Rejected
    /\ \A f \in C6_Missing : C6_Word(f) \in resp.body.error.names

\* the Vault call of the request has failed
VaultFailed ==
  /\ pc = "done"
  /\ vaultAnswer # <<>>
  /\ vaultAnswer.kind # "ok"

\* C8 (as amended): a Vault HTTP error is answered with Vault's status and
\* success:false, error and details; a network failure or timeout is
\* answered 500 with success:false and error, without details.
C8_VaultFailure ==
  VaultFailed =>
    /\ resp.body.success = FALSE
    /\ "error" \in DOMAIN resp.body
    /\ IF vaultAnswer.kind = "http"
         THEN /\ resp.status = vaultAnswer.status
              /\ "details" \in DOMAIN resp.body
              /\ resp.body.details = vaultAnswer.data
         ELSE /\ resp.status = 500
              /\ "details" \notin DOMAIN resp.body

\* revoke-self could not reach Vault
C8_Witness ==
  /\ VaultFailed
  /\ handler = "revoke"
  /\ vaultAnswer.kind = "net"
  /\ resp.status = 500

\* C8 as stated: both kinds of failure carry success:false, error and details
C8_DetailsAlways ==
  VaultFailed =>
    /\ resp.status = (IF vaultAnswer.kind = "http" THEN vaultAnswer.status ELSE 500)
    /\ resp.body.success = FALSE
    /\ {"error", "details"} \subseteq DOMAIN resp.body

\* a handler that forwards Vault's body has had a 2xx from Vault
ForwardsVaultBody ==
  /\ handler \in {"revoke", "unwrap", "unwrap0", "capabilities_self"}
  /\ vaultAnswer # <<>>
  /\ vaultAnswer.kind = "ok"

\* C9 (as amended): every error response, and every success response of
\* login, lookup, validate-access, secret retrieval and config, carries a
\* boolean success field, true exactly on status 200; the success responses
\* of revoke-self, unwrap and sys/capabilities-self are Vault's body as it is.
C9_SuccessField ==
  pc = "done" =>
    IF ForwardsVaultBody
      THEN resp.status = 200 /\ resp.body = vaultAnswer.data
      ELSE /\ "success" \in DOMAIN resp.body
           /\ resp.body.success = (resp.status = 200)

\* revoke-self answers Vault's empty body
C9_Witness ==
  /\ pc = "done"
  /\ handler = "revoke"
  /\ ForwardsVaultBody
  /\ "success" \notin DOMAIN resp.body

\* C9 as stated: every response carries a boolean success field
C9_AlwaysSuccessField ==
  pc = "done" =>
    /\ "success" \in DOMAIN resp.body
    /\ resp.body.success \in BOOLEAN

\* C10: for every unwrap request whose Vault call has completed, the
\* notifier is triggered once if notificationEmail is non-empty and never
\* otherwise, and the response is returned whether or not the notifier has
\* settled.
C10_NotifiedOnce ==
  (handler \in UnwrapVersions /\ pc = "done" /\ vaultAnswer # <<>>) =>
    /\ Len(notified) = (IF body.notificationEmail # <<>> THEN 1 ELSE 0)
    /\ resp # <<>>

\* an unwrap request has been answered
UnwrapAnswered == handler \in UnwrapVersions /\ pc = "done"

\* what the unwrap handler answers to request b when Vault settles with v
\* and no notifier is started at all
UnwrapAnswerWithoutNotifier(h, b, v) ==
  LET quiet == [b EXCEPT !.notificationEmail = <<>>] IN
  IF Validation(h, quiet) # <<>> THEN Validation(h, quiet)
                                 ELSE VaultReply(h, quiet, v)

\* C11: the notifier's outcome never affects the unwrap handler's response:
\* whatever the notifier calls of the request have come to (sent, failed,
\* thrown, rejected, still running), the status and body returned are those
\* of the same request and Vault outcome with no notifier.
C11_ResponseIgnoresNotifier ==
  UnwrapAnswered =>
    resp = UnwrapAnswerWithoutNotifier(handler, body, vaultAnswer)

\* an unwrap is answered 200 while its notifier has failed for every
\* recipient, and another while its notifier has rejected
C11_Witness ==
  /\ UnwrapAnswered
  /\ resp.status = 200
  /\ notified # <<>>
  /\ \E i \in 1..Len(runs) :
       \/ runs[i].state = "rejected"
       \/ runs[i].state = "resolved" /\ runs[i].failed > 0 /\ runs[i].success = 0

\* C12: when SMTP_HOST is unset or a placeholder, every notifier call
\* returns success 0 and failed 0 and attempts no send, whatever the email
\* string and the payload.
C12_SkipsWhenUnconfigured ==
  env.SMTP_HOST \in {<<>>, <<"smtp.example.com">>, <<"xxx.example.com">>} =>
    \A i \in 1..Len(runs) :
      /\ runs[i].state = "resolved"
      /\ runs[i].success = 0
      /\ runs[i].failed = 0
      /\ runs[i].attempts = <<>>

\* with a placeholder host, a notifier call naming valid addresses has
\* returned without a send
C12_Witness ==
  /\ env.SMTP_HOST = <<"smtp.example.com">>
  /\ \E i \in 1..Len(runs) :
       /\ Len(runs[i].emailString) > 5
       /\ runs[i].emailString[1] = "a"
       /\ runs[i].state = "resolved"

\* the calls the request has made to Vault and to the Kubernetes API
VaultCalls == SelectSeq(outbound, LAMBDA c : c.to = "vault")
K8sCalls == SelectSeq(outbound, LAMBDA c : c.to = "k8s")

\* the Kubernetes secret read of the request has failed
K8sReadFailed == k8sAnswer # <<>> /\ k8sAnswer.kind # "ok"

C13_AtMostOnce ==
  /\ Len(VaultCalls) <= 1
  /\ Len(K8sCalls) <= (IF handler \in LoginVersions THEN 1 ELSE 0)
  /\ K8sReadFailed => VaultCalls = <<>>
  /\ (pc = "done") <=> (resp # <<>>)

C13_Terminal ==
  pc' # "idle" =>
    /\ resp # <<>> => (resp' = resp /\ outbound' = outbound)
    /\ vaultAnswer # <<>> => outbound' = outbound
    /\ K8sReadFailed => outbound' = outbound

\* C13: no operation is retried: a request makes at most one call to Vault
\* and, for login, at most one Kubernetes secret read; once a call has failed
\* or a response has been returned, the request makes no further call, and
\* the response returned is never replaced.
C13_NoRetry == [] C13_AtMostOnce /\ [][C13_Terminal]_vars

\* a login has been answered after its Vault call failed without a response,
\* having made one Kubernetes read and one Vault call
C13_Witness ==
  /\ handler = "login"
  /\ pc = "done"
  /\ vaultAnswer # <<>>
  /\ vaultAnswer.kind = "net"
  /\ Len(K8sCalls) = 1
  /\ Len(VaultCalls) = 1
  /\ resp.status = 500

Is2xx(status) == status >= 200 /\ status < 300

\* the revoke-self handler answers 2xx exactly when Vault answered 2xx, for
\* the request of the logout in flight
C14_HandlerTreatsEmptyAsSuccess ==
  inflight["logout"] # <<>> =>
    \A v \in VaultOutcomes("revoke") :
      Is2xx(VaultReply("revoke", inflight["logout"], v).status)
        <=> (v.kind = "ok" /\ v.data = <<>>)

\* the logout in flight settles: the token is cleared on a 2xx response and
\* kept on any other and on none
C14_LogoutSettles ==
  (inflight["logout"] # <<>> /\ inflight'["logout"] = <<>>) =>
    IF Is2xx(logoutResult') THEN token' = <<>> ELSE token' = token

\* C14: the revoke-self handler treats a 2xx Vault response with an empty
\* body as success and answers 2xx, and the page's logout then clears the
\* token it holds; on any non-2xx response or network failure the handler
\* answers non-2xx and the page's token is left unchanged.
C14_RevokeSelf ==
  [] C14_HandlerTreatsEmptyAsSuccess /\ [][C14_LogoutSettles]_vars

\* a logout has been answered 200 and has cleared the token
C14_Witness ==
  /\ logoutResult = 200
  /\ token = <<>>
  /\ toast = "Logout successful! Token revoked."
  /\ inflight["logout"] = <<>>

\* invocation c, once answered, has returned the response and triggered the
\* notifications that its request gives when it is the only one served,
\* Vault answering it the same
AsIfAlone(c) ==
  c.pc = "done" =>
    /\ c.resp = (IF Validation(c.handler, c.body) # <<>>
                   THEN Validation(c.handler, c.body)
                   ELSE VaultReply(c.handler, c.body, c.vaultAnswer))
    /\ c.notified =
         (IF Validation(c.handler, c.body) # <<>> THEN <<>>
          ELSE Notifications(c.handler, c.body,
                             IF c.handler \in UnwrapVersions
                               THEN c.body.notificationEmail ELSE <<>>,
                             c.vaultAnswer))

\* C15: requests are handled independently: under any interleaving of two
\* requests in flight at once, to the same handler or to different ones,
\* each request's response and, for unwrap, the recipient string and payload
\* of each notification it triggers are what the request gives when run
\* alone with the same Vault response.
C15_Independent == AsIfAlone(Closure) /\ AsIfAlone(other)

\* two unwrap requests naming different recipients have been in flight
\* together, and both are answered with their notifications triggered
C15_Witness ==
  /\ pc = "done"
  /\ other.pc = "done"
  /\ handler \in UnwrapVersions
  /\ other.handler \in UnwrapVersions
  /\ body.notificationEmail # other.body.notificationEmail
  /\ notified # <<>>
  /\ other.notified # <<>>

\* the kinds of failure of the Kubernetes secret read
K8sFailures == {k \in K8sOutcomes : k.kind # "ok"}

K8sFailureClass(k) ==
  CASE k.kind = "api" /\ k.statusCode = 404 -> "not found"
    [] k.kind = "api" /\ k.statusCode = 403 -> "forbidden"
    [] k.kind = "api" /\ k.statusCode = 401 -> "unauthorized"
    [] OTHER ->
         IF k.isError /\ (includes(k.message, "ECONNREFUSED")
                           \/ includes(k.message, "ETIMEDOUT"))
           THEN "connection refused or timed out"
           ELSE "other"

\* C16: in the login handler every Kubernetes-phase failure is reported
\* before Vault is contacted and with a message of its own: client
\* initialisation failure, not found, forbidden, unauthorized, connection
\* refused or timed out, and any other failure are answered with different
\* messages, and none of them makes a Vault call.
C16_DistinctK8sFailures ==
  (handler \in LoginVersions /\ pc = "done") =>
    /\ resp = ClientInitFailed => outbound = <<>>
    /\ K8sReadFailed =>
         /\ VaultCalls = <<>>
         /\ resp.body.error # ClientInitFailed.body.error
         /\ \A k \in K8sFailures :
              K8sFailureClass(k) # K8sFailureClass(k8sAnswer) =>
                K8sPhaseResponse(handler, body, k).body.error # resp.body.error

\* the Kubernetes secret was read, holds the requested key, and the text
\* stored under it decodes from base64 to the empty string
DecodesToEmpty ==
  /\ handler \in LoginVersions
  /\ pc = "done"
  /\ k8sAnswer # <<>>
  /\ k8sAnswer.kind = "ok"
  /\ k8sAnswer.hasData
  /\ body.secretKey \in DOMAIN k8sAnswer.data
  /\ B64Decode(k8sAnswer.data[body.secretKey]) = <<>>

\* C17: whenever the named key is present in the Kubernetes secret and its
\* stored value base64-decodes to the empty string, the login handler
\* answers with an error that differs in status and in message from the
\* key-not-found error, and makes no Vault call.
C17_EmptyDistinctFromNotFound ==
  DecodesToEmpty =>
    /\ resp.status # KeyNotFound(body).status
    /\ resp.body.error.text # KeyNotFound(body).body.error.text
    /\ VaultCalls = <<>>

\* Vault has answered the lookup-self request with a 2xx
LookupAnswered ==
  /\ handler = "lookup"
  /\ pc = "done"
  /\ vaultAnswer # <<>>
  /\ vaultAnswer.kind = "ok"

LookupFields ==
  {"id", "accessor", "creation_time", "expire_time", "ttl", "renewable",
   "policies", "entity_id", "display_name"}

\* C18: for every Vault self-lookup response the lookup handler answers
\* success true with data holding exactly the fields id, accessor,
\* creation_time, expire_time, ttl, renewable, policies, entity_id and
\* display_name, each that of Vault's data object (undefined when Vault
\* omits it), and nothing else of Vault's response.
C18_LookupProjection ==
  LookupAnswered =>
    /\ resp.status = 200
    /\ DOMAIN resp.body = {"success", "data"}
    /\ resp.body.success = TRUE
    /\ DOMAIN resp.body.data = LookupFields
    /\ \A f \in LookupFields :
         resp.body.data[f] =
           IF "data" \in DOMAIN vaultAnswer.data
              /\ f \in DOMAIN vaultAnswer.data.data
             THEN <<vaultAnswer.data.data[f]>>
             ELSE <<>>

\* Vault's answer holds a field outside the nine and a request_id, and omits
\* none of the nine
C18_Witness ==
  /\ LookupAnswered
  /\ "request_id" \in DOMAIN vaultAnswer.data
  /\ "orphan" \in DOMAIN vaultAnswer.data.data
  /\ resp.body.data.display_name = <<"approle">>

\* notifier call r went past the SMTP check with a string to parse
Parsed(r) == isSmtpConfigured(env) /\ r.emailString # NonString

\* the sends of r so far are to the valid addresses of its string, one each,
\* in their order, and every send is counted once
OneSendPerRecipient(r) ==
  LET valid == parseEmailAddresses(r.emailString) IN
  /\ Len(r.attempts) <= Len(valid)
  /\ \A n \in 1..Len(r.attempts) : r.attempts[n].to = valid[n]
  /\ r.success = Len(SelectSeq(r.attempts, LAMBDA a : a.outcome = "sent"))
  /\ r.failed = Len(SelectSeq(r.attempts, LAMBDA a : a.outcome # "sent"))
  /\ r.state \in {"sending", "resolved"}
  /\ r.state = "resolved" <=> Len(r.attempts) = Len(valid)

\* C19: sendUnwrapNotification attempts one send per valid parsed recipient,
\* in order, whether or not earlier sends failed or threw; the success and
\* failed counts it returns add up to the number of valid parsed recipients,
\* and are 0 and 0 with no send attempted when no address is valid.
C19_OneSendPerRecipient ==
  \A i \in 1..Len(runs) : Parsed(runs[i]) => OneSendPerRecipient(runs[i])

\* a call for two valid recipients has returned 1 + 1 after the send to the
\* first threw and the send to the second succeeded
C19_Witness ==
  \E i \in 1..Len(runs) :
    /\ runs[i].state = "resolved"
    /\ Len(runs[i].attempts) = 2
    /\ runs[i].attempts[1].outcome = "threw"
    /\ runs[i].attempts[2].outcome = "sent"
    /\ runs[i].attempts[1].to # runs[i].attempts[2].to
    /\ runs[i].success = 1
    /\ runs[i].failed = 1

\* the config request has been answered
ConfigAnswered == handler = "config" /\ pc = "done"

\* position i of list begins an entry starting with 'http': nothing but
\* blanks lies between the comma before it, or the start, and i
EndpointEntryAt(list, i) ==
  /\ i + 3 <= Len(list)
  /\ SubSeq(list, i, i + 3) = <<"h", "t", "t", "p">>
  /\ \A j \in 1..(i - 1) :
       (\A k \in j..(i - 1) : list[k] # ",") => list[j] = " "

\* the namespace list the handler reads
NamespaceVariable ==
  IF env.K8S_NAMESPACE_LIST # <<>> THEN env.K8S_NAMESPACE_LIST
                                   ELSE env.NEXT_PUBLIC_K8S_NAMESPACE_LIST

\* C20: for every environment configuration (variables unset, empty,
\* blank, or lists with no valid entry) the config handler answers success
\* true with a non-empty endpoints list, a non-empty namespaces list, a
\* non-empty title and the SMTP-configured flag; a variable that yields no
\* valid entry gives the hardcoded default.
C20_ConfigDefaults ==
  ConfigAnswered =>
    /\ resp.status = 200
    /\ resp.body.success = TRUE
    /\ DOMAIN resp.body.config = {"title", "endpoints", "namespaces", "email"}
    /\ Len(resp.body.config.endpoints) > 0
    /\ Len(resp.body.config.namespaces) > 0
    /\ resp.body.config.title # <<>>
    /\ resp.body.config.email.configured \in BOOLEAN
    /\ (~ \E i \in 1..Len(env.VAULT_ENDPOINTS) :
            EndpointEntryAt(env.VAULT_ENDPOINTS, i))
         => resp.body.config.endpoints = <<<<"http://localhost:8200">>>>
    /\ (\A i \in 1..Len(NamespaceVariable) :
            NamespaceVariable[i] \in {",", " "})
         => resp.body.config.namespaces = <<<<"default">>>>
    /\ (\A i \in 1..Len(env.NEXT_PUBLIC_APP_TITLE) :
            env.NEXT_PUBLIC_APP_TITLE[i] = " ")
         => resp.body.config.title = <<"HashiCorp Vault Credential Validator">>

\* the config request is answered with the three defaults in an environment
\* whose variables are set and hold no valid entry
C20_Witness ==
  /\ ConfigAnswered
  /\ env.VAULT_ENDPOINTS = <<"x", ",">>
  /\ env.K8S_NAMESPACE_LIST = <<",", " ">>
  /\ env.NEXT_PUBLIC_K8S_NAMESPACE_LIST = <<"p">>
  /\ env.NEXT_PUBLIC_APP_TITLE = <<" ">>
  /\ resp.body.config.endpoints = <<<<"http://localhost:8200">>>>
  /\ resp.body.config.namespaces = <<<<"default">>>>

\* the login handler has issued its Vault login POST
LoginPostIssued == handler \in LoginVersions /\ VaultCalls # <<>>

\* C22: whenever the login handler issues a Vault login POST, a successful
\* Kubernetes secret read came before it within the same request, the
\* payload's role_id is the request's accessId, and its secret_id is the
\* base64 decoding of the value stored under the requested key.
C22_LoginPostAfterSecretRead ==
  LoginPostIssued =>
    /\ Len(outbound) = 2
    /\ outbound[1] = [to |-> "k8s", name |-> body.k8sSecretName,
                      namespace |-> body.k8sNamespace]
    /\ outbound[2].to = "vault"
    /\ k8sAnswer # <<>>
    /\ k8sAnswer.kind = "ok"
    /\ k8sAnswer.hasData
    /\ body.secretKey \in DOMAIN k8sAnswer.data
    /\ outbound[2].method = "POST"
    /\ outbound[2].payload.role_id = body.accessId
    /\ outbound[2].payload.secret_id =
         B64Decode(k8sAnswer.data[body.secretKey])

\* a login POST is out whose secret_id is the one byte that a stored text
\* of two characters decodes to
C22_Witness ==
  /\ LoginPostIssued
  /\ handler = "login"
  /\ Len(k8sAnswer.data[body.secretKey]) = 2
  /\ Len(outbound[2].payload.secret_id) = 1
  /\ outbound[2].payload.role_id # <<>>

\* Vault has answered the validate-access request with a 2xx
ValidateAccessAnswered ==
  /\ handler = "validate_access"
  /\ pc = "done"
  /\ vaultAnswer # <<>>
  /\ vaultAnswer.kind = "ok"

\* the capability list of Vault's answer, empty when it has none
ReturnedCapabilities ==
  IF "capabilities" \in DOMAIN vaultAnswer.data
    THEN vaultAnswer.data.capabilities ELSE <<>>

CallUrlFor(b) ==
  IF handler \in LoginVersions THEN LoginVaultCall(b, k8sAnswer).url
                               ELSE FirstVaultCall(handler, b).url

\* text s begins with text t
BeginsWith(s, t) == Len(s) >= Len(t) /\ SubSeq(s, 1, Len(t)) = t

\* the handler appends a path of its own, not one the request gives whole
AppendsFixedPath ==
  ~ (handler = "get_secret" /\ startsWith(body.secretPath, "/"))

\* C30: every handler removes at most one trailing '/' from the endpoint
\* before appending its Vault path: for an endpoint e not ending in '/', the
\* requests for e and for e followed by '/' go to the same URL, which is e
\* followed at once by '/v1/...'; of two trailing slashes one is kept.
C30_OneTrailingSlash ==
  VaultCalls # <<>> =>
    LET url == VaultCalls[1].url
        e == body.endpoint
        e0 == sliceDropLast(e)
        v1 == IF AppendsFixedPath THEN <<"/", "v", "1", "/">> ELSE <<"/">>
    IN /\ ~ endsWith(e, "/") =>
            /\ url = CallUrlFor([body EXCEPT !.endpoint = e \o <<"/">>])
            /\ BeginsWith(url, e \o v1)
       /\ (endsWith(e, "/") /\ ~ endsWith(e0, "/")) =>
            /\ url = CallUrlFor([body EXCEPT !.endpoint = e0])
            /\ BeginsWith(url, e0 \o v1)
       /\ (endsWith(e, "/") /\ endsWith(e0, "/")) =>
            BeginsWith(url, e0 \o v1)

\* a lookup for endpoint 'a/' is out to 'a/v1/auth/token/lookup-self'
C30_Witness ==
  /\ handler = "lookup"
  /\ VaultCalls # <<>>
  /\ body.endpoint = <<"a", "/">>
  /\ VaultCalls[1].url = <<"a">> \o LookupSelfPath

\* this step sends the request of operation op
Sends(op) == inflight[op] = <<>> /\ inflight'[op] # <<>>

\* the operations that act on the token held in page memory
TokenOps == {"lookup", "logout", "validateAccess"}

C24_SentWithToken ==
  /\ \A op \in TokenOps :
       Sends(op) => /\ token # <<>>
                    /\ inflight'[op].token = token
  /\ (Sends("login") /\ ui # "page0") =>
       /\ inflight'["login"].endpoint # <<>>
       /\ inflight'["login"].accessId # <<>>
       /\ inflight'["login"].k8sNamespace # <<>>
       /\ inflight'["login"].k8sSecretName # <<>>
       /\ inflight'["login"].secretKey # <<>>

\* C24: in every trace of the page a lookup, logout or validate-access
\* request is sent only while the token in memory is non-empty, and carries
\* that token; a login request is sent only when endpoint, access id and
\* the three Kubernetes reference fields are non-empty.
C24_GuardedRequests == [][C24_SentWithToken]_vars

\* a validate-access request is in flight with the token a login stored
C24_Witness ==
  /\ ui = "page"
  /\ inflight["validateAccess"] # <<>>
  /\ token = TokenValue
  /\ inflight["validateAccess"].token = TokenValue


\* C25: whenever the login handler returns a success response carrying the
\* client token Vault issued, the page's login action stores exactly that
\* token in page memory; it reports 'login failed' only when the response
\* carries no token.
C25_LoginStoresToken ==
  loginResult # <<>> =>
    /\ (loginResult.success /\ loginResult.token # <<>>)
         => token = loginResult.token
    /\ toast = "Login failed"
         => (~loginResult.success \/ loginResult.token = <<>>)

\* the operation's request in flight is settled by this step
Settles(op) == inflight[op] # <<>> /\ inflight'[op] = <<>>

\* a step that changes the token is the settling of a login whose response
\* carried that token, or the settling of a logout answered 2xx
C27_TokenStep ==
  token' # token =>
    \/ /\ Settles("login")
       /\ loginResult'.token # <<>>
       /\ token' = loginResult'.token
    \/ /\ Settles("logout")
       /\ Is2xx(logoutResult')
       /\ token' = <<>>

\* C27: the page's in-memory token changes only in two ways: a login
\* response carrying a client token sets it to that token, and a successful
\* logout sets it to empty; a failed or guarded login, lookup,
\* validate-access, unwrap or failed logout, and every field edit, leave the
\* token unchanged.
C27_TokenFrame == [][C27_TokenStep]_vars

\* a token stored by a login is still held after an edit of the endpoint,
\* while a failed lookup is reported
C27_Witness ==
  /\ token # <<>>
  /\ edits > 0
  /\ toast = "Token lookup failed"

\* a step changes an operation's flag only for that operation: to true when
\* its request is sent, to false when its request settles, and a settling
\* request always leaves its flag false
C28_FlagStep ==
  \A op \in Ops :
    /\ loading'[op] # loading[op] =>
         IF loading'[op] THEN Sends(op) ELSE Settles(op)
    /\ Settles(op) => ~loading'[op]

\* a flag that is true is eventually false
C28_FlagResets == \A op \in Ops : loading[op] ~> ~loading[op]

\* C28: every page operation (login, lookup, logout, unwrap,
\* validate-access) that sets its loading flag to true eventually sets that
\* same flag back to false once its HTTP call settles, on success and on
\* every failure path, and never changes another operation's flag; an
\* operation rejected by its input guard never sets its flag.
C28_LoadingFlags == [][C28_FlagStep]_vars /\ C28_FlagResets

\* a login has just settled in failure and its flag is false, while the
\* lookup sent before it is still loading
C28_Witness ==
  /\ loginResult # <<>>
  /\ ~loginResult.success
  /\ ~loading["login"]
  /\ loading["lookup"]

\* what getItem finds under the key decides what the hook yields once
\* mounted: the text found if it is not empty, the hook's initial value
\* otherwise
YieldsAfterMount(k) ==
  stored'[k] = IF k \in DOMAIN localStorage /\ localStorage[k] # <<>>
                 THEN localStorage[k]
                 ELSE InitialStored(ui)[k]

\* setValue in an edit leaves under the key the value the hook then holds,
\* empty or not; a remount yields the value found, or the initial value
\* when the value found is empty
C29_HookStep ==
  /\ edits' # edits =>
       \A k \in DOMAIN localStorage' :
         (k \notin DOMAIN localStorage \/ localStorage'[k] # localStorage[k])
           => localStorage'[k] = stored'[k]
  /\ (edits' = edits /\ localStorage' = localStorage) =>
       \A k \in StorageKeys(ui) : YieldsAfterMount(k)

\* C29: for the useLocalStorage hook, a non-empty string written with
\* setValue under a key is the value the hook yields after a remount; an
\* empty string written with setValue is stored, but after a remount the
\* hook yields its initial value instead ('secret-id' for the secret key
\* field, the default endpoint for the endpoint field).
C29_UseLocalStorage == [][C29_HookStep]_vars

\* the secret key field was emptied with an access id in local storage;
\* after a remount the hook of the first yields 'secret-id' again over the
\* stored empty string, and the hook of the second yields the id stored
C29_Witness ==
  /\ ui = "page"
  /\ "vault-secretKey" \in DOMAIN localStorage
  /\ localStorage["vault-secretKey"] = <<>>
  /\ stored["vault-secretKey"] = DefaultSecretKey
  /\ edits = 2
  /\ stored["vault-accessId"] = <<"a">>
  /\ localStorage["vault-accessId"] = <<"a">>

\* the requests the script has handed to curl, by the Vault path they end in
IsLoginRequest(q) ==
  q.method = "POST" /\ \E p \in Str(MaxLen) : q.url = p \o AppRoleLoginPath
IsLookupRequest(q) ==
  q.method = "GET" /\ \E p \in Str(MaxLen) : q.url = p \o LookupSelfPath
IsSecretRequest(q) ==
  q.method = "GET" /\ \E i \in 1..Len(q.url) :
    SubSeq(q.url, i, i + Len(V1SecretDataPrefix) - 1) = V1SecretDataPrefix

\* the login answered with a client token
CliLoggedIn ==
  /\ Len(cli.responses) >= 1
  /\ cli.responses[1].kind = "json"
  /\ cli.responses[1].token # <<>>

\* the requests made are login, lookup, get-secret, in this order
C21_Order ==
  /\ Len(cli.requests) <= 3
  /\ Len(cli.requests) >= 1 => IsLoginRequest(cli.requests[1])
  /\ Len(cli.requests) >= 2 => IsLookupRequest(cli.requests[2])
  /\ Len(cli.requests) >= 3 => IsSecretRequest(cli.requests[3])

\* once the script has left: after a failed login with status 1 and the
\* login request at most; after a login that succeeded with all three
\* requests made, whatever the lookup returned
C21_Finished ==
  cli.pc = "exited" =>
    IF CliLoggedIn THEN Len(cli.requests) = 3
                   ELSE cli.exit = 1 /\ Len(cli.requests) <= 1

\* lookup and get-secret carry the token of the login response
C21_TokenOfLogin ==
  \A i \in 2..Len(cli.requests) :
    /\ CliLoggedIn
    /\ cli.requests[i].token = cli.responses[1].token

CliEndpoint ==
  IF cli.args.endpoint = <<>> THEN cli.VAULT_ENDPOINT ELSE cli.args.endpoint

\* C26: for every endpoint and secretPath, the command-line script's
\* get-secret step requests the same Vault URL that the path resolution rule
\* prescribes for the web handler: <endpoint><secretPath> when secretPath
\* starts with '/', and <endpoint>/v1/secret/data/<secretPath> otherwise.
C26_SameUrlAsHandler ==
  Len(cli.requests) = 3 =>
    cli.requests[3].url = secretUrl(CliEndpoint, cli.args.secretPath)

====
